---- MODULE Spec2Model ----
(***************************************************************************)
(* Relation DETR (modeling_relation_detr.py): a verification model of the  *)
(* denoising-mask generator, the native-kernel bridge and the deformable   *)
(* attention module, the valid-ratio computation, the top-level model's    *)
(* two-stage selection and output assembly, the contrastive denoising      *)
(* generator, the decoder's layer loop with its relation bias, and the     *)
(* detection head with its loss orchestration.                             *)
(*                                                                         *)
(* Each component has its own variables and its own specification; a       *)
(* specification keeps the variables of the other components at their idle *)
(* values.  Tensors are modelled by their index structure: a boolean mask  *)
(* is a function from index pairs to BOOLEAN, a float is an exact rational *)
(* <<numerator, denominator>> or one of the IEEE specials "nan", "inf".    *)
(***************************************************************************)
EXTENDS Integers, Sequences, FiniteSets, TLC

VARIABLES
    gen,          \* GenerateDNQueries instance: [denoising_groups, num_queries]
    mask_call,    \* last generate_query_masks call: <<>> or <<[max_gt, result]>>
    env,          \* the process: [cuda, ninja] (is_torch_cuda_available, is_ninja_available)
    MultiScaleDeformableAttention,  \* the module-level kernel handle: "None" or "ext"
    modules,      \* the constructed RelationDetrMultiscaleDeformableAttention modules
    loads,        \* history: [calls, ok, failed] of load_cuda_kernels invocations
    attn_call,    \* last __init__ / forward call of the attention module: <<>> or <<record>>
    ratio_call,   \* last get_valid_ratios / multi_level_misc call: <<>> or <<record>>
    model,        \* RelationDetrModel instance: config, training flag, learned class head
    fwd_input,    \* the arguments every RelationDetrModel.forward call is given
    fwd_call,     \* result of the last RelationDetrModel.forward call: <<>> or <<record>>
    fwd_prev,     \* result of the call before it: <<>> or <<record>>
    cdn,          \* GenerateCDNQueries instance: its non-parameter attributes
    cdn_call,     \* last GenerateCDNQueries.forward call: <<>> or <<record>>
    detector,     \* RelationDetrForObjectDetection instance: config, mode, generator
    det_input,    \* the arguments of the RelationDetrForObjectDetection.forward calls
    det_call,     \* result of the last RelationDetrForObjectDetection.forward call
    dec,          \* a RelationDetrDecoder.forward call in progress: <<>> or <<record>>
    mapper,       \* RelationDetrChannelMapper instance: [in_channels, num_outs, convs]
    map_call,     \* last RelationDetrChannelMapper.forward call: <<>> or <<record>>
    tree,         \* module tree handed to replace_batch_norm: <<>> or <<root module>>
    bn_call,      \* last replace_batch_norm call: <<>> or <<[before, after]>>
    noise_gen,    \* GenerateDNQueries or GenerateCDNQueries instance whose scatter is traced
    noise_call,   \* last forward call of noise_gen with its index tensors and buffers: <<>> or <<record>>
    net,          \* RelationDetrModel seen as its backbone adapter and its other parameters: <<>> or <<record>>
    net_calls,    \* the freeze_backbone / unfreeze_backbone calls made on net so far, oldest first
    rel_dec,      \* RelationDetrDecoder seen through the shapes of its attention modules: <<>> or <<record>>
    rel_call      \* last forward call of rel_dec with the shape of every layer's self-attention mask: <<>> or <<record>>

maskVars == <<gen, mask_call>>
attnVars == <<env, MultiScaleDeformableAttention, modules, loads, attn_call>>

ratioVars == <<ratio_call>>

modelVars == <<model, fwd_input, fwd_call, fwd_prev>>

cdnVars == <<cdn, cdn_call>>

headVars == <<detector, det_input, det_call>>

decVars == <<dec>>

mapVars == <<mapper, map_call>>

bnVars == <<tree, bn_call>>

noiseVars == <<noise_gen, noise_call>>

netVars == <<net, net_calls>>

relVars == <<rel_dec, rel_call>>

vars == <<gen, mask_call, env, MultiScaleDeformableAttention, modules, loads, attn_call,
          ratio_call, model, fwd_input, fwd_call, fwd_prev, cdn, cdn_call,
          detector, det_input, det_call, dec,
          mapper, map_call,
          tree, bn_call,
          noise_gen, noise_call,
          net, net_calls,
          rel_dec, rel_call>>

\* Optional values: None is the empty sequence, a present value x is <<x>>.
None == << >>
Some(x) == <<x>>
IsSome(o) == Len(o) = 1
Get(o) == o[1]

(***************************************************************************)
(* Bounds of the model.                                                    *)
(***************************************************************************)
MaxGroups == 4      \* denoising_groups ranges over 1..MaxGroups
MaxGt == 4          \* max_gt_num_per_image ranges over 0..MaxGt
MaxGenQueries == 4  \* the generator's num_queries ranges over 0..MaxGenQueries
MaxInits == 2       \* attention modules constructed in one process
MaxSide == 4        \* height and width of a pixel mask range over 1..MaxSide
MaxPositions == 2   \* flattened encoder positions of an image range over 1..MaxPositions
MaxNumQueries == 2  \* config.num_queries ranges over 1..MaxNumQueries
MaxFeature == 1     \* an encoder memory vector is one of 0..MaxFeature, 0 the zero vector
MaxDenoising == 3   \* config.num_denoising ranges over 0..MaxDenoising
MaxBoxes == 2       \* ground-truth boxes of an image range over 0..MaxBoxes
MaxLayers == 3      \* config.decoder_layers ranges over 1..MaxLayers
MaxLevels == 3      \* len(in_channels) of a channel mapper ranges over 1..MaxLevels
MaxOuts == 5        \* num_outs of a channel mapper ranges over 1..MaxOuts
MaxChildren == 2    \* a container module of a tree has 1..MaxChildren submodules
MaxCalls == 5       \* freeze_backbone / unfreeze_backbone calls followed on one model
MaxHeads == 2       \* attention head counts of a decoder range over 1..MaxHeads
MaxModelDim == 4    \* config.d_model of a decoder ranges over 1..MaxModelDim

(***************************************************************************)
(* GenerateDNQueries.generate_query_masks                                  *)
(***************************************************************************)

\* Python slice a:b over an axis of length n (bounds clipped to the axis).
Slice(a, b, n) == {i \in 0..(n - 1) : a <= i /\ i < b}

\* torch.zeros(n, n, dtype=torch.bool)
ZerosBool(n) == [p \in (0..(n - 1)) \X (0..(n - 1)) |-> FALSE]

\* mask[rows, cols] = True
FillTrue(mask, rows, cols) ==
    [p \in DOMAIN mask |-> IF p[1] \in rows /\ p[2] \in cols THEN TRUE ELSE mask[p]]

\* A plausible slip: the columns to the right of a group's block are left visible.
RECURSIVE GroupLoopNoRight(_, _, _, _, _)
GroupLoopNoRight(mask, i, groups, M, size) ==
    IF i >= groups THEN [error |-> FALSE, mask |-> mask]
    ELSE LET noised == M * groups
             start == M * i
             end == M * (i + 1)
         IN  IF ~(noised >= end /\ start >= 0) THEN [error |-> TRUE, mask |-> mask]
             ELSE GroupLoopNoRight(
                      FillTrue(mask, Slice(start, end, size), Slice(0, start, size)),
                      i + 1, groups, M, size)

\* The body of `for i in range(self.denoising_groups)`, run from iteration i on.
\* error is TRUE when the assert in the loop body fails.
RECURSIVE GroupLoop(_, _, _, _, _)
GroupLoop(mask, i, groups, M, size) ==
    IF i >= groups THEN [error |-> FALSE, mask |-> mask]
    ELSE LET noised == M * groups
             start == M * i
             end == M * (i + 1)
         IN  IF ~(noised >= end /\ start >= 0) THEN [error |-> TRUE, mask |-> mask]
             ELSE GroupLoop(
                      FillTrue(FillTrue(mask, Slice(start, end, size), Slice(0, start, size)),
                               Slice(start, end, size), Slice(end, noised, size)),
                      i + 1, groups, M, size)

\* A plausible slip: the ordinary rows are blocked from every column.
generate_query_masks_BlocksRow(self, M) ==
    LET noised_query_nums == M * self.denoising_groups
        tgt_size == noised_query_nums + self.num_queries
        zero == ZerosBool(tgt_size)
        first == FillTrue(zero, Slice(noised_query_nums, tgt_size, tgt_size),
                          Slice(0, tgt_size, tgt_size))
        looped == GroupLoop(first, 0, self.denoising_groups, M, tgt_size)
    IN  [error |-> looped.error, size |-> tgt_size, mask |-> looped.mask]

\* GenerateDNQueries.generate_query_masks(max_gt_num_per_image): the mask,
\* its side and whether the assert of the loop failed
generate_query_masks(self, M) ==
    LET noised_query_nums == M * self.denoising_groups
        tgt_size == noised_query_nums + self.num_queries
        zero == ZerosBool(tgt_size)
        \* match query cannot see the reconstruct
        first == FillTrue(zero, Slice(noised_query_nums, tgt_size, tgt_size),
                          Slice(0, noised_query_nums, tgt_size))
        looped == GroupLoop(first, 0, self.denoising_groups, M, tgt_size)
    IN  [error |-> looped.error, size |-> tgt_size, mask |-> looped.mask]

(***************************************************************************)
(* Exact rationals <<numerator, denominator>> with a positive denominator  *)
(* stand for the float values of the tensors.                              *)
(***************************************************************************)
RatAdd(a, b) == <<a[1] * b[2] + b[1] * a[2], a[2] * b[2]>>
RatMul(a, b) == <<a[1] * b[1], a[2] * b[2]>>
RatDivInt(a, k) == <<a[1], a[2] * k>>      \* a / k for an integer k > 0
RatSub(a, b) == <<a[1] * b[2] - b[1] * a[2], a[2] * b[2]>>
RatEq(a, b) == a[1] * b[2] = b[1] * a[2]
RatLess(a, b) == a[1] * b[2] < b[1] * a[2]
Half == <<1, 2>>

(***************************************************************************)
(* load_cuda_kernels and RelationDetrMultiscaleDeformableAttention         *)
(***************************************************************************)

\* A plausible slip: the handle is bound before the build has succeeded.
load_cuda_kernels_BindsEarly(handle, build_ok) ==
    [raised |-> ~build_ok, handle |-> "ext"]

\* load_cuda_kernels: torch's load() either returns the extension, which is then
\* bound to the global handle, or raises and leaves the handle as it was.
load_cuda_kernels(handle, build_ok) ==
    IF build_ok THEN [raised |-> FALSE, handle |-> "ext"]
    ELSE [raised |-> TRUE, handle |-> handle]

\* A plausible slip: the build is attempted whether or not the kernel is loaded.
attn_init_NoGuard(handle, environment, config, build_ok) ==
    LET attempt == environment.cuda /\ environment.ninja
        built == IF attempt THEN load_cuda_kernels(handle, build_ok)
                 ELSE [raised |-> FALSE, handle |-> handle]
        bad == config.d_model % config.num_heads # 0
    IN  [op |-> "init",
         load_called |-> attempt,
         build_failed |-> attempt /\ built.raised,
         warned |-> attempt /\ built.raised,
         raised |-> IF bad THEN "ValueError" ELSE "None",
         handle |-> built.handle,
         config |-> config,
         module |-> [disable_custom_kernels |-> config.disable_custom_kernels,
                     n_points |-> config.n_points,
                     n_heads |-> config.num_heads,
                     d_model |-> config.d_model,
                     im2col_step |-> 64]]

\* RelationDetrMultiscaleDeformableAttention.__init__: the outcome of one
\* construction.  build_ok is the outcome the just-in-time build would have.
attn_init(handle, environment, config, build_ok) ==
    LET kernel_loaded == handle # "None"
        attempt == environment.cuda /\ environment.ninja /\ ~kernel_loaded
        built == IF attempt THEN load_cuda_kernels(handle, build_ok)
                 ELSE [raised |-> FALSE, handle |-> handle]
        \* `except Exception as e: logger.warning(...)`
        bad == config.d_model % config.num_heads # 0
    IN  [op |-> "init",
         load_called |-> attempt,
         build_failed |-> attempt /\ built.raised,
         warned |-> attempt /\ built.raised,
         raised |-> IF bad THEN "ValueError" ELSE "None",
         handle |-> built.handle,
         config |-> config,
         module |-> [disable_custom_kernels |-> config.disable_custom_kernels,
                     n_points |-> config.n_points,
                     n_heads |-> config.num_heads,
                     d_model |-> config.d_model,
                     im2col_step |-> 64]]

RECURSIVE SumElements(_)
SumElements(shapes) ==
    IF shapes = << >> THEN 0
    ELSE Head(shapes)[1] * Head(shapes)[2] + SumElements(Tail(shapes))

\* A plausible slip: the offsets are normalised by (height, width).
sampling_locations_Unswapped(self, reference_points, sampling_offsets, spatial_shapes) ==
    LET num_coordinates == Len(reference_points[1])
    IN  IF num_coordinates = 2 THEN
            Some([l \in DOMAIN spatial_shapes |->
                     LET offset_normalizer == <<spatial_shapes[l][1], spatial_shapes[l][2]>>
                     IN  [c \in 1..2 |->
                             RatAdd(reference_points[l][c],
                                    RatDivInt(sampling_offsets[l][c], offset_normalizer[c]))]])
        ELSE IF num_coordinates = 4 THEN
            Some([l \in DOMAIN spatial_shapes |->
                     [c \in 1..2 |->
                         RatAdd(reference_points[l][c],
                                RatMul(RatMul(RatDivInt(sampling_offsets[l][c], self.n_points),
                                              reference_points[l][c + 2]),
                                       Half))]])
        ELSE None

\* The sampling-location rule of forward, per level l and coordinate c (x, y);
\* spatial_shapes[l] is (height, width).  None stands for the ValueError branch.
sampling_locations(self, reference_points, sampling_offsets, spatial_shapes) ==
    LET num_coordinates == Len(reference_points[1])
    IN  IF num_coordinates = 2 THEN
            Some([l \in DOMAIN spatial_shapes |->
                     LET offset_normalizer == <<spatial_shapes[l][2], spatial_shapes[l][1]>>
                     IN  [c \in 1..2 |->
                             RatAdd(reference_points[l][c],
                                    RatDivInt(sampling_offsets[l][c], offset_normalizer[c]))]])
        ELSE IF num_coordinates = 4 THEN
            Some([l \in DOMAIN spatial_shapes |->
                     [c \in 1..2 |->
                         RatAdd(reference_points[l][c],
                                RatMul(RatMul(RatDivInt(sampling_offsets[l][c], self.n_points),
                                              reference_points[l][c + 2]),
                                       Half))]])
        ELSE None

\* A plausible slip: no try/except around the custom kernel.
attn_forward_NoExcept(self, handle, inp) ==
    LET locations == sampling_locations(self, inp.reference_points, inp.sampling_offsets,
                                        inp.spatial_shapes)
        base == [op |-> "forward", module |-> inp.module, input |-> inp,
                 handle_seen |-> handle]
    IN  IF SumElements(inp.spatial_shapes) # inp.sequence_length THEN
            base @@ [raised |-> "ValueError", about |-> "spatial_shapes", tried_kernel |-> FALSE,
                     kernel_raised |-> FALSE, path |-> "none", locations |-> None]
        ELSE IF locations = None THEN
            base @@ [raised |-> "ValueError", about |-> "reference_points", tried_kernel |-> FALSE,
                     kernel_raised |-> FALSE, path |-> "none", locations |-> None]
        ELSE IF self.disable_custom_kernels \/ handle = "None" THEN
            base @@ [raised |-> "None", about |-> "", tried_kernel |-> FALSE,
                     kernel_raised |-> FALSE, path |-> "pytorch", locations |-> locations]
        ELSE IF inp.kernel_raises THEN
            base @@ [raised |-> "Exception", about |-> "kernel", tried_kernel |-> TRUE,
                     kernel_raised |-> TRUE, path |-> "none", locations |-> locations]
        ELSE
            base @@ [raised |-> "None", about |-> "", tried_kernel |-> TRUE,
                     kernel_raised |-> FALSE, path |-> "kernel", locations |-> locations]

\* RelationDetrMultiscaleDeformableAttention.forward: the outcome of one call.
\* inp.kernel_raises is the outcome the custom kernel would have if called.
attn_forward(self, handle, inp) ==
    LET locations == sampling_locations(self, inp.reference_points, inp.sampling_offsets,
                                        inp.spatial_shapes)
        base == [op |-> "forward", module |-> inp.module, input |-> inp,
                 handle_seen |-> handle]
    IN  IF SumElements(inp.spatial_shapes) # inp.sequence_length THEN
            base @@ [raised |-> "ValueError", about |-> "spatial_shapes", tried_kernel |-> FALSE,
                     kernel_raised |-> FALSE, path |-> "none", locations |-> None]
        ELSE IF locations = None THEN
            base @@ [raised |-> "ValueError", about |-> "reference_points", tried_kernel |-> FALSE,
                     kernel_raised |-> FALSE, path |-> "none", locations |-> None]
        ELSE IF self.disable_custom_kernels \/ handle = "None" THEN
            base @@ [raised |-> "None", about |-> "", tried_kernel |-> FALSE,
                     kernel_raised |-> FALSE, path |-> "pytorch", locations |-> locations]
        ELSE IF inp.kernel_raises THEN
            \* `except Exception:` falls back to the PyTorch implementation
            base @@ [raised |-> "None", about |-> "", tried_kernel |-> TRUE,
                     kernel_raised |-> TRUE, path |-> "pytorch", locations |-> locations]
        ELSE
            base @@ [raised |-> "None", about |-> "", tried_kernel |-> TRUE,
                     kernel_raised |-> FALSE, path |-> "kernel", locations |-> locations]

(***************************************************************************)
(* Valid ratios: get_multi_levels, get_valid_ratios, multi_level_misc,     *)
(* get_full_reference_points.  A float is <<n, d>>: finite when d > 0, nan *)
(* is <<0, 0>> and inf is <<1, 0>>.                                        *)
(***************************************************************************)
FNan == <<0, 0>>
FInf == <<1, 0>>
FOne == <<1, 1>>
FIsFinite(x) == x[2] # 0
FIsZero(x) == x[2] # 0 /\ x[1] = 0

\* a / b for integers a >= 0, b >= 0, as float division computes it
FloatDivInt(a, b) == IF b # 0 THEN <<a, b>> ELSE IF a = 0 THEN FNan ELSE FInf

\* x / y for floats x >= 0, y >= 0
FloatDiv(x, y) ==
    IF ~FIsFinite(x) \/ ~FIsFinite(y) THEN FNan
    ELSE IF FIsZero(y) THEN (IF FIsZero(x) THEN FNan ELSE FInf)
    ELSE <<x[1] * y[2], x[2] * y[1]>>

FloatMulInt(x, k) == IF FIsFinite(x) THEN <<x[1] * k, x[2]>> ELSE x

\* A boolean map of shape (h, w): [h, w, m], m indexed by <<row, column>>.
Cells(h, w) == (0..(h - 1)) \X (0..(w - 1))
BoolMap(h, w, m) == [h |-> h, w |-> w, m |-> m]

\* ~mask
Invert(mask) == [mask EXCEPT !.m = [p \in DOMAIN mask.m |-> ~mask.m[p]]]

\* F.interpolate(pixel_mask[None], size=size)[0].to(torch.bool): nearest
\* neighbour, output (i, j) reads input (floor(i * H / h), floor(j * W / w)).
interp_mask(pixel_mask, size) ==
    BoolMap(size[1], size[2],
            [p \in Cells(size[1], size[2]) |->
                pixel_mask.m[<<(p[1] * pixel_mask.h) \div size[1],
                               (p[2] * pixel_mask.w) \div size[2]>>]])

\* A plausible slip: the special case for an empty tensor is missing.
get_valid_ratios_NoSpecialCase(mask) ==
    LET valid_h == Cardinality({i \in 0..(mask.h - 1) : mask.w > 0 /\ ~mask.m[<<i, 0>>]})
        valid_w == Cardinality({j \in 0..(mask.w - 1) : mask.h > 0 /\ ~mask.m[<<0, j>>]})
    IN  <<FloatDivInt(valid_w, mask.w), FloatDivInt(valid_h, mask.h)>>

\* get_valid_ratios(mask), mask True on padding: (valid_ratio_w, valid_ratio_h)
get_valid_ratios(mask) ==
    IF mask.h = 0 \/ mask.w = 0 THEN <<FOne, FOne>>    \* for empty Tensor
    ELSE LET valid_h == Cardinality({i \in 0..(mask.h - 1) : ~mask.m[<<i, 0>>]})
             valid_w == Cardinality({j \in 0..(mask.w - 1) : ~mask.m[<<0, j>>]})
             valid_ratio_h == FloatDivInt(valid_h, mask.h)
             valid_ratio_w == FloatDivInt(valid_w, mask.w)
         IN  <<valid_ratio_w, valid_ratio_h>>

\* A plausible slip: the masks (True = valid) are passed on without inversion.
multi_level_valid_ratios_NoInvert(multi_level_masks) ==
    [l \in DOMAIN multi_level_masks |-> get_valid_ratios(multi_level_masks[l])]

\* multi_level_valid_ratios: the masks are True on valid positions here
multi_level_valid_ratios(multi_level_masks) ==
    [l \in DOMAIN multi_level_masks |-> get_valid_ratios(Invert(multi_level_masks[l]))]

\* get_full_reference_points, per level: the column coordinates ref_x and the
\* row coordinates ref_y of the half-pixel grid, (k + 0.5) / (valid_ratio * extent)
get_full_reference_points(spatial_shapes, valid_ratios) ==
    [lvl \in DOMAIN spatial_shapes |->
        LET h == spatial_shapes[lvl][1]
            w == spatial_shapes[lvl][2]
        IN  [ref_y |-> [i \in 1..h |->
                           FloatDiv(<<2 * i - 1, 2>>, FloatMulInt(valid_ratios[lvl][2], h))],
             ref_x |-> [j \in 1..w |->
                           FloatDiv(<<2 * j - 1, 2>>, FloatMulInt(valid_ratios[lvl][1], w))]]]

\* multi_level_misc followed by get_full_reference_points, as forward runs them
\* on the masks get_multi_levels derives from the pixel mask
multi_level_misc(pixel_mask, sizes) ==
    LET multi_level_masks == [l \in DOMAIN sizes |-> interp_mask(pixel_mask, sizes[l])]
        spatial_shapes == [l \in DOMAIN sizes |-> <<multi_level_masks[l].h, multi_level_masks[l].w>>]
        valid_ratios == multi_level_valid_ratios(multi_level_masks)
    IN  [op |-> "multi_level_misc",
         pixel_mask |-> pixel_mask,
         masks |-> multi_level_masks,
         spatial_shapes |-> spatial_shapes,
         valid_ratios |-> valid_ratios,
         full_reference_points |-> get_full_reference_points(spatial_shapes, valid_ratios)]

(***************************************************************************)
(* RelationDetrDecoder.forward: the layer loop and the self-attention bias *)
(***************************************************************************)
\* Box tensors are named by where they come from: the reference points the
\* decoder is given, outputs_coord of layer k (the predicted boxes), and
\* reference_points as refined after layer k.
NoBoxes == [kind |-> "none", layer |-> -1]
InitialBoxes == [kind |-> "init", layer |-> -1]
PredictedBoxes(k) == [kind |-> "pred", layer |-> k]
RefinedBoxes(k) == [kind |-> "refined", layer |-> k]

\* A self-attention mask or bias over size x size query pairs.  dtype "none"
\* is None; "bool" is a boolean mask, keep the pairs that are True; "float"
\* is a relation bias computed from (src, tgt), keep the pairs not filled
\* with -inf.
AllPairs(size) == (0..(size - 1)) \X (0..(size - 1))
NoMask == [dtype |-> "none", size |-> 0, keep |-> {}, src |-> NoBoxes, tgt |-> NoBoxes]
BoolMask(size, mask) ==
    [dtype |-> "bool", size |-> size, keep |-> {p \in AllPairs(size) : mask[p]},
     src |-> NoBoxes, tgt |-> NoBoxes]

\* self.position_relation_embedding(src_boxes, tgt_boxes).flatten(0, 1)
position_relation_embedding(src_boxes, tgt_boxes, length) ==
    [dtype |-> "float", size |-> length, keep |-> AllPairs(length),
     src |-> src_boxes, tgt |-> tgt_boxes]

\* position_relation.masked_fill_(~self_attention_mask, float("-inf"))
masked_fill_neg_inf(position_relation, self_attention_mask) ==
    [position_relation EXCEPT !.keep = @ \cap self_attention_mask.keep]

\* A plausible slip: a boolean mask is read with True meaning blocked.
mha_forward_TrueBlocks(attention_mask, target_len) ==
    IF attention_mask.dtype = "none" THEN
        [raised |-> FALSE, added |-> FALSE, neg_inf |-> {}, src |-> NoBoxes, tgt |-> NoBoxes]
    ELSE IF attention_mask.size # target_len THEN
        [raised |-> TRUE, added |-> FALSE, neg_inf |-> {}, src |-> NoBoxes, tgt |-> NoBoxes]
    ELSE
        [raised |-> FALSE, added |-> TRUE,
         neg_inf |-> IF attention_mask.dtype = "bool" THEN attention_mask.keep
                     ELSE AllPairs(target_len) \ attention_mask.keep,
         src |-> attention_mask.src, tgt |-> attention_mask.tgt]

\* RelationDetrMultiheadAttention.forward: what is added to the attention
\* logits of target_len queries.  A boolean mask becomes 0 where True and -inf
\* where False; a float bias is added as it is; a mask of another size raises
\* ValueError.  neg_inf are the pairs that get -inf, (src, tgt) the boxes of
\* the finite relation bias (NoBoxes: the finite entries are 0).
mha_forward(attention_mask, target_len) ==
    IF attention_mask.dtype = "none" THEN
        [raised |-> FALSE, added |-> FALSE, neg_inf |-> {}, src |-> NoBoxes, tgt |-> NoBoxes]
    ELSE IF attention_mask.size # target_len THEN
        [raised |-> TRUE, added |-> FALSE, neg_inf |-> {}, src |-> NoBoxes, tgt |-> NoBoxes]
    ELSE
        [raised |-> FALSE, added |-> TRUE,
         neg_inf |-> AllPairs(target_len) \ attention_mask.keep,
         src |-> attention_mask.src, tgt |-> attention_mask.tgt]

\* The state of the loop before its first iteration
decoder_start(self_attention_mask) ==
    [idx |-> 0,
     position_relation |-> self_attention_mask,
     src_boxes |-> InitialBoxes,
     reference_points |-> InitialBoxes,
     layers |-> << >>,
     raised |-> FALSE]

\* A plausible slip: the source boxes are advanced before the relation is
\* computed.
decoder_layer_AdvancesFirst(st, length, self_attention_mask, skip_relation) ==
    LET attn == mha_forward(st.position_relation, length)
        outputs_coord == PredictedBoxes(st.idx)
        relation == position_relation_embedding(outputs_coord, outputs_coord, length)
        filled == IF self_attention_mask.dtype # "none"
                  THEN masked_fill_neg_inf(relation, self_attention_mask)
                  ELSE relation
    IN  IF attn.raised THEN [st EXCEPT !.raised = TRUE]
        ELSE [idx |-> st.idx + 1,
              position_relation |-> IF skip_relation THEN st.position_relation ELSE filled,
              src_boxes |-> IF skip_relation THEN st.src_boxes ELSE outputs_coord,
              reference_points |-> RefinedBoxes(st.idx),
              layers |-> Append(st.layers,
                                [self_attention |-> attn,
                                 reference_points_input |-> st.reference_points,
                                 outputs_coord |-> outputs_coord,
                                 relation_evaluated |-> ~skip_relation]),
              raised |-> FALSE]

\* A plausible slip: skip_relation is not consulted.
decoder_layer_IgnoresSkip(st, length, self_attention_mask, skip_relation) ==
    LET attn == mha_forward(st.position_relation, length)
        outputs_coord == PredictedBoxes(st.idx)
        relation == position_relation_embedding(st.src_boxes, outputs_coord, length)
        filled == IF self_attention_mask.dtype # "none"
                  THEN masked_fill_neg_inf(relation, self_attention_mask)
                  ELSE relation
    IN  IF attn.raised THEN [st EXCEPT !.raised = TRUE]
        ELSE [idx |-> st.idx + 1,
              position_relation |-> filled,
              src_boxes |-> outputs_coord,
              reference_points |-> RefinedBoxes(st.idx),
              layers |-> Append(st.layers,
                                [self_attention |-> attn,
                                 reference_points_input |-> st.reference_points,
                                 outputs_coord |-> outputs_coord,
                                 relation_evaluated |-> TRUE]),
              raised |-> FALSE]

\* One iteration of `for idx, decoder_layer in enumerate(self.layers)` on
\* `length` queries: the layer runs with position_relation as its
\* self-attention mask, the boxes of the layer are predicted, the relation
\* for the next layer is computed and masked, the source boxes advance and
\* the reference points are refined.
decoder_layer(st, length, self_attention_mask, skip_relation) ==
    LET attn == mha_forward(st.position_relation, length)
        outputs_coord == PredictedBoxes(st.idx)
        relation == position_relation_embedding(st.src_boxes, outputs_coord, length)
        filled == IF self_attention_mask.dtype # "none"
                  THEN masked_fill_neg_inf(relation, self_attention_mask)
                  ELSE relation
    IN  IF attn.raised THEN [st EXCEPT !.raised = TRUE]
        ELSE [idx |-> st.idx + 1,
              position_relation |-> IF skip_relation THEN st.position_relation ELSE filled,
              src_boxes |-> IF skip_relation THEN st.src_boxes ELSE outputs_coord,
              reference_points |-> RefinedBoxes(st.idx),
              layers |-> Append(st.layers,
                                [self_attention |-> attn,
                                 reference_points_input |-> st.reference_points,
                                 outputs_coord |-> outputs_coord,
                                 relation_evaluated |-> ~skip_relation]),
              raised |-> FALSE]

\* The whole loop over decoder_layers layers; the state a layer leaves is
\* computed once and handed to the next iteration
RECURSIVE decoder_loop(_, _, _, _, _)
decoder_loop(st, decoder_layers, length, self_attention_mask, skip_relation) ==
    IF st.raised \/ st.idx >= decoder_layers THEN st
    ELSE CHOOSE final \in
             {decoder_loop(next, decoder_layers, length, self_attention_mask, skip_relation) :
                 next \in {decoder_layer(st, length, self_attention_mask, skip_relation)}} :
             TRUE

(***************************************************************************)
(* RelationDetrEncoder / RelationDetrDecoder outputs and                   *)
(* RelationDetrModel.forward.  A tensor that the model only passes on is   *)
(* the descriptor <<producer, field>>; an absent (None) field is << >>.    *)
(***************************************************************************)
Absent == << >>

RECURSIVE DropAbsent(_)
\* tuple(v for v in [...] if v is not None)
DropAbsent(values) ==
    IF values = << >> THEN << >>
    ELSE IF Head(values) = Absent THEN DropAbsent(Tail(values))
    ELSE <<Head(values)>> \o DropAbsent(Tail(values))

\* t[2:]
From2(t) == SubSeq(t, 3, Len(t))

\* RelationDetrEncoder.forward: its return value
encoder_forward(output_attentions, output_hidden_states, return_dict) ==
    LET hidden_states == <<"encoder", "last_hidden_state">>
        encoder_states == IF output_hidden_states THEN <<"encoder", "hidden_states">> ELSE Absent
        all_attentions == IF output_attentions THEN <<"encoder", "attentions">> ELSE Absent
    IN  IF ~return_dict THEN DropAbsent(<<hidden_states, encoder_states, all_attentions>>)
        ELSE [last_hidden_state |-> hidden_states,
              hidden_states |-> encoder_states,
              attentions |-> all_attentions]

\* A plausible slip: the tuple starts with the last hidden state.
decoder_forward_HiddenFirst(pass, output_attentions, output_hidden_states, return_dict) ==
    LET all_hidden_states == IF output_hidden_states THEN <<pass, "hidden_states">> ELSE Absent
        all_self_attns == IF output_attentions THEN <<pass, "attentions">> ELSE Absent
        all_cross_attentions == IF output_attentions THEN <<pass, "cross_attentions">> ELSE Absent
    IN  IF ~return_dict THEN
            DropAbsent(<< <<pass, "last_hidden_state">>, <<pass, "pred_logits">>,
                          <<pass, "pred_boxes">>, <<pass, "intermediate_hidden_states">>,
                          <<pass, "intermediate_reference_points">>,
                          all_hidden_states, all_self_attns, all_cross_attentions >>)
        ELSE [pred_logits |-> <<pass, "pred_logits">>,
              pred_boxes |-> <<pass, "pred_boxes">>,
              last_hidden_state |-> <<pass, "last_hidden_state">>,
              intermediate_hidden_states |-> <<pass, "intermediate_hidden_states">>,
              intermediate_reference_points |-> <<pass, "intermediate_reference_points">>,
              hidden_states |-> all_hidden_states,
              attentions |-> all_self_attns,
              cross_attentions |-> all_cross_attentions]

\* RelationDetrDecoder.forward: its return value for the pass named by `pass`
decoder_forward(pass, output_attentions, output_hidden_states, return_dict) ==
    LET all_hidden_states == IF output_hidden_states THEN <<pass, "hidden_states">> ELSE Absent
        all_self_attns == IF output_attentions THEN <<pass, "attentions">> ELSE Absent
        all_cross_attentions == IF output_attentions THEN <<pass, "cross_attentions">> ELSE Absent
    IN  IF ~return_dict THEN
            DropAbsent(<< <<pass, "pred_logits">>, <<pass, "pred_boxes">>,
                          <<pass, "last_hidden_state">>, <<pass, "intermediate_hidden_states">>,
                          <<pass, "intermediate_reference_points">>,
                          all_hidden_states, all_self_attns, all_cross_attentions >>)
        ELSE [pred_logits |-> <<pass, "pred_logits">>,
              pred_boxes |-> <<pass, "pred_boxes">>,
              last_hidden_state |-> <<pass, "last_hidden_state">>,
              intermediate_hidden_states |-> <<pass, "intermediate_hidden_states">>,
              intermediate_reference_points |-> <<pass, "intermediate_reference_points">>,
              hidden_states |-> all_hidden_states,
              attentions |-> all_self_attns,
              cross_attentions |-> all_cross_attentions]

\* RelationDetrDecoderOutput(): every field None
EmptyDecoderOutput ==
    [pred_logits |-> Absent, pred_boxes |-> Absent, last_hidden_state |-> Absent,
     intermediate_hidden_states |-> Absent, intermediate_reference_points |-> Absent,
     hidden_states |-> Absent, attentions |-> Absent, cross_attentions |-> Absent]

\* A box logit: inverse_sigmoid(proposal) + delta, or +inf
InfLogit == [inf |-> TRUE, of |-> <<0, 0>>, delta |-> 0]
InverseSigmoid(proposal) == [inf |-> FALSE, of |-> proposal, delta |-> 0]
AddDelta(logit, d) == IF logit.inf THEN logit ELSE [logit EXCEPT !.delta = @ + d]

\* (proposals > 0.01) & (proposals < 0.99)).all(-1); coordinates in hundredths
ProposalValid(proposal) == \A c \in DOMAIN proposal : proposal[c] > 1 /\ proposal[c] < 99
BoolInt(b) == IF b THEN 1 ELSE 0

\* A plausible slip: the memory of positions with an invalid proposal is kept.
get_encoder_output_KeepsInvalid(memory, proposals, memory_padding_mask) ==
    LET output_proposals_valid == [p \in DOMAIN memory |-> ProposalValid(proposals[p])]
        invalid == [p \in DOMAIN memory |-> memory_padding_mask[p] \/ ~output_proposals_valid[p]]
    IN  [output_memory |-> [p \in DOMAIN memory |->
                               memory[p] * BoolInt(~memory_padding_mask[p])],
         proposals |-> [p \in DOMAIN memory |->
                           IF invalid[p] THEN InfLogit ELSE InverseSigmoid(proposals[p])]]

\* RelationDetrModel.get_encoder_output, up to the learned projection, which
\* the heads below include
get_encoder_output(memory, proposals, memory_padding_mask) ==
    LET output_proposals_valid == [p \in DOMAIN memory |-> ProposalValid(proposals[p])]
        invalid == [p \in DOMAIN memory |-> memory_padding_mask[p] \/ ~output_proposals_valid[p]]
    IN  [output_memory |-> [p \in DOMAIN memory |->
                               memory[p] * BoolInt(~memory_padding_mask[p])
                                         * BoolInt(output_proposals_valid[p])],
         proposals |-> [p \in DOMAIN memory |->
                           IF invalid[p] THEN InfLogit ELSE InverseSigmoid(proposals[p])]]

\* enc_outputs_class.max(-1)[0]
MaxLogitOf(logits) == CHOOSE x \in {logits[i] : i \in DOMAIN logits} :
                          \A i \in DOMAIN logits : logits[i] <= x

\* The element torch.topk takes next from the candidates: a largest score;
\* among equal scores the order is the build's, lowest or highest index first.
Best(candidates, scores, tie_rule) ==
    CHOOSE p \in candidates :
        \A q \in candidates \ {p} :
            \/ scores[p] > scores[q]
            \/ scores[p] = scores[q] /\ (IF tie_rule = "low" THEN p < q ELSE p > q)

\* A plausible slip: the smallest scores are taken (largest=False).
RECURSIVE TopKSmallest(_, _, _, _)
TopKSmallest(candidates, scores, k, tie_rule) ==
    IF k = 0 THEN << >>
    ELSE LET negated == [p \in DOMAIN scores |-> 0 - scores[p]]
             b == Best(candidates, negated, tie_rule)
         IN  <<b>> \o TopKSmallest(candidates \ {b}, scores, k - 1, tie_rule)

\* torch.topk(scores, k, dim=1)[1] over the candidate positions
RECURSIVE TopK(_, _, _, _)
TopK(candidates, scores, k, tie_rule) ==
    IF k = 0 THEN << >>
    ELSE LET b == Best(candidates, scores, tie_rule)
         IN  <<b>> \o TopK(candidates \ {b}, scores, k - 1, tie_rule)

Min(a, b) == IF a <= b THEN a ELSE b

\* torch.gather(values, 1, index)
Gather(values, index) == [i \in DOMAIN index |-> values[index[i]]]

\* The learned heads applied to an object-query embedding e (0..MaxFeature):
\* the first-stage class head is the table self.class_head over two labels, the
\* second label's logit being 0; the hybrid class head and the two box heads
\* are fixed functions of e.
EncoderClassHead(self, e) == <<self.class_head[e], 0>>
HybridClassHead(self, e) == <<MaxFeature - e, 0>>
EncoderBboxHead(self, e) == e
HybridBboxHead(self, e) == 0

\* A plausible slip: the hybrid branch is not restricted to training.
HybridEnabledAlways(self) == TRUE

\* `if self.training:`
HybridEnabled(self) == self.training

\* RelationDetrModel.forward: the outcome of one call
model_forward(self, inp) ==
    LET output_attentions == inp.output_attentions
        output_hidden_states == inp.output_hidden_states
        return_dict == inp.return_dict
        positions == DOMAIN inp.memory
        encoder_outputs == encoder_forward(output_attentions, output_hidden_states, return_dict)
        enc == get_encoder_output(inp.memory, inp.proposals,
                                  [p \in positions |-> ~inp.mask_flatten[p]])
        object_query_embedding == enc.output_memory
        output_proposals == enc.proposals
        enc_outputs_class == [p \in positions |-> EncoderClassHead(self, object_query_embedding[p])]
        enc_outputs_coord_logits ==
            [p \in positions |->
                AddDelta(output_proposals[p], EncoderBboxHead(self, object_query_embedding[p]))]
        \* only keep top scoring `config.num_queries` proposals
        topk == Min(self.config.num_queries, Len(enc_outputs_class))
        topk_proposals == TopK(positions, [p \in positions |-> MaxLogitOf(enc_outputs_class[p])],
                               topk, self.tie_rule)
        topk_class == Gather(enc_outputs_class, topk_proposals)
        topk_coords_logits == Gather(enc_outputs_coord_logits, topk_proposals)
        target == SubSeq([q \in 1..self.config.num_queries |-> <<"target_embed", q>>], 1, topk)
        hybrid == HybridEnabled(self)
        hybrid_class_all == [p \in positions |-> HybridClassHead(self, object_query_embedding[p])]
        hybrid_coord_all ==
            [p \in positions |->
                AddDelta(output_proposals[p], HybridBboxHead(self, object_query_embedding[p]))]
        hybrid_topk == Min(self.config.hybrid_queries, Len(hybrid_class_all))
        topk_index == TopK(positions, [p \in positions |-> MaxLogitOf(hybrid_class_all[p])],
                           hybrid_topk, self.tie_rule)
        hybrid_enc_class == IF hybrid THEN <<"hybrid", "enc_class">> ELSE Absent
        hybrid_enc_coord == IF hybrid THEN <<"hybrid", "enc_coord">> ELSE Absent
        hybrid_target ==
            SubSeq([q \in 1..self.config.hybrid_queries |-> <<"hybrid_target_embed", q>>],
                   1, hybrid_topk)
        \* combine with noised_label_query and noised_box_query for denoising training
        denoising == inp.noised_label_query # Absent /\ inp.noised_box_query # Absent
        decoder_target ==
            IF denoising
            THEN [i \in 1..inp.noised_label_query[1].length |-> <<"noised_label_query", i>>]
                 \o target
            ELSE target
        memory == IF return_dict THEN encoder_outputs.last_hidden_state ELSE encoder_outputs[1]
        primary_run == decoder_loop(decoder_start(inp.self_attention_mask),
                                    self.config.decoder_layers, Len(decoder_target),
                                    inp.self_attention_mask, FALSE)
        hybrid_layers == decoder_loop(decoder_start(NoMask), self.config.decoder_layers,
                                      Len(hybrid_target), NoMask, TRUE)
        raised == primary_run.raised
        decoder_outputs == decoder_forward("decoder", output_attentions, output_hidden_states,
                                           return_dict)
        outputs_classes == IF return_dict THEN decoder_outputs.pred_logits ELSE decoder_outputs[1]
        outputs_coords == IF return_dict THEN decoder_outputs.pred_boxes ELSE decoder_outputs[2]
        hybrid_run == decoder_forward("hybrid", output_attentions, output_hidden_states,
                                      return_dict)
        hybrid_outputs == IF hybrid THEN hybrid_run
                          ELSE IF return_dict THEN EmptyDecoderOutput ELSE << >>
        hybrid_outputs_classes ==
            IF ~hybrid THEN Absent
            ELSE IF return_dict THEN hybrid_run.pred_logits ELSE hybrid_run[1]
        hybrid_outputs_coords ==
            IF ~hybrid THEN Absent
            ELSE IF return_dict THEN hybrid_run.pred_boxes ELSE hybrid_run[2]
        selection == [topk |-> topk,
                      topk_proposals |-> topk_proposals,
                      topk_class |-> topk_class,
                      topk_coords_logits |-> topk_coords_logits,
                      target |-> target,
                      output_memory |-> object_query_embedding,
                      enc_outputs_class |-> enc_outputs_class,
                      enc_outputs_coord_logits |-> enc_outputs_coord_logits]
        primary_call == [pass |-> "decoder",
                         inputs_embeds |-> decoder_target,
                         encoder_hidden_states |-> memory,
                         self_attention_mask |-> inp.self_attention_mask,
                         skip_relation |-> FALSE,
                         run |-> primary_run]
        hybrid_call == [pass |-> "hybrid",
                        inputs_embeds |-> hybrid_target,
                        encoder_hidden_states |-> memory,
                        self_attention_mask |-> NoMask,
                        skip_relation |-> TRUE,
                        run |-> hybrid_layers]
        common == [selection |-> selection,
                   raised |-> raised,
                   decoder_calls |-> IF hybrid /\ ~raised THEN <<primary_call, hybrid_call>>
                                     ELSE <<primary_call>>,
                   decoder_passes |-> IF hybrid /\ ~raised THEN <<"decoder", "hybrid">>
                                      ELSE <<"decoder">>,
                   hybrid_selection |-> IF hybrid THEN <<topk_index, hybrid_target>> ELSE Absent,
                   return_dict |-> return_dict]
    IN  IF ~return_dict THEN
            common @@
            [out |-> << <<"model", "init_reference_points">>, outputs_classes, outputs_coords,
                        <<"model", "topk_class">>, <<"model", "topk_coords">> >>
                     \o From2(decoder_outputs) \o encoder_outputs \o From2(hybrid_outputs)
                     \o DropAbsent(<<hybrid_outputs_classes, hybrid_outputs_coords,
                                     hybrid_enc_class, hybrid_enc_coord>>)]
        ELSE
            common @@
            [out |-> [init_reference_points |-> <<"model", "init_reference_points">>,
                      dec_outputs_class |-> outputs_classes,
                      dec_outputs_coord |-> outputs_coords,
                      enc_outputs_class |-> <<"model", "topk_class">>,
                      enc_outputs_coord |-> <<"model", "topk_coords">>,
                      last_hidden_state |-> decoder_outputs.last_hidden_state,
                      intermediate_hidden_states |-> decoder_outputs.intermediate_hidden_states,
                      intermediate_reference_points |-> decoder_outputs.intermediate_reference_points,
                      decoder_hidden_states |-> decoder_outputs.hidden_states,
                      decoder_attentions |-> decoder_outputs.attentions,
                      cross_attentions |-> decoder_outputs.cross_attentions,
                      encoder_last_hidden_state |-> encoder_outputs.last_hidden_state,
                      encoder_hidden_states |-> encoder_outputs.hidden_states,
                      encoder_attentions |-> encoder_outputs.attentions,
                      hybrid_hidden_states |-> hybrid_outputs.hidden_states,
                      hybrid_attentions |-> hybrid_outputs.attentions,
                      hybrid_cross_attentions |-> hybrid_outputs.cross_attentions,
                      hybrid_outputs_class |-> hybrid_outputs_classes,
                      hybrid_outputs_coord |-> hybrid_outputs_coords,
                      hybrid_enc_outputs_class |-> hybrid_enc_class,
                      hybrid_enc_outputs_coord |-> hybrid_enc_coord]]

(***************************************************************************)
(* GenerateCDNQueries.forward                                              *)
(***************************************************************************)
Max(a, b) == IF a >= b THEN a ELSE b

\* max(gt_nums_per_image) of a non-empty list
MaxOf(nums) == CHOOSE x \in {nums[i] : i \in DOMAIN nums} :
                   \A i \in DOMAIN nums : nums[i] <= x

\* A plausible slip: the group count is not raised to the minimum of 1.
cdn_groups_NoMinimum(num_denoising, max_gt_num_per_image) ==
    (num_denoising * max_gt_num_per_image)
        \div Max(max_gt_num_per_image * max_gt_num_per_image, 1)

\* self.denoising_groups as forward recomputes it (Python // on non-negative
\* integers is \div)
cdn_groups(num_denoising, max_gt_num_per_image) ==
    LET denoising_groups ==
            (num_denoising * max_gt_num_per_image)
                \div Max(max_gt_num_per_image * max_gt_num_per_image, 1)
    IN  Max(denoising_groups, 1)

\* The slots of one image's row of the noised queries that receive a noised
\* embedding: valid_index_per_group restricted to the image
valid_slots(num, max_gt_num_per_image, copies) ==
    {v + max_gt_num_per_image * i : v \in 0..(num - 1), i \in 0..(copies - 1)}

\* A plausible slip: the attribute is left alone and the group count of the
\* construction is the one used.
cdn_forward_KeepsGroups(self, gt_nums_per_image, return_dict) ==
    LET use_dict == IF IsSome(return_dict) THEN Get(return_dict) ELSE self.return_dict
        max_gt_num_per_image == MaxOf(gt_nums_per_image)
        noised_query_nums == max_gt_num_per_image * self.denoising_groups * 2
        queries == [b \in DOMAIN gt_nums_per_image |->
                       [length |-> noised_query_nums,
                        filled |-> valid_slots(gt_nums_per_image[b], max_gt_num_per_image,
                                               self.denoising_groups * 2)]]
        attn_mask == generate_query_masks(self, 2 * max_gt_num_per_image)
    IN  [self |-> self,
         raised |-> attn_mask.error,
         output |-> [kind |-> IF use_dict THEN "ModelOutput" ELSE "tuple",
                     noised_label_query |-> queries,
                     noised_box_query |-> queries,
                     denoise_attn_mask |-> [size |-> attn_mask.size, mask |-> attn_mask.mask],
                     denoising_groups |-> self.denoising_groups,
                     max_gt_num_per_image |-> 2 * max_gt_num_per_image]]

\* A plausible slip: the count returned is the one of the positive queries only.
cdn_forward_SingleCount(self, gt_nums_per_image, return_dict) ==
    LET use_dict == IF IsSome(return_dict) THEN Get(return_dict) ELSE self.return_dict
        max_gt_num_per_image == MaxOf(gt_nums_per_image)
        after == [self EXCEPT !.denoising_groups =
                                  cdn_groups(self.num_denoising, max_gt_num_per_image)]
        \* the total denoising queries
        noised_query_nums == max_gt_num_per_image * after.denoising_groups * 2
        queries == [b \in DOMAIN gt_nums_per_image |->
                       [length |-> noised_query_nums,
                        filled |-> valid_slots(gt_nums_per_image[b], max_gt_num_per_image,
                                               after.denoising_groups * 2)]]
        attn_mask == generate_query_masks(after, 2 * max_gt_num_per_image)
    IN  [self |-> after,
         raised |-> attn_mask.error,
         output |-> [kind |-> IF use_dict THEN "ModelOutput" ELSE "tuple",
                     noised_label_query |-> queries,
                     noised_box_query |-> queries,
                     denoise_attn_mask |-> [size |-> attn_mask.size, mask |-> attn_mask.mask],
                     denoising_groups |-> after.denoising_groups,
                     max_gt_num_per_image |-> max_gt_num_per_image]]

\* GenerateCDNQueries.forward(gt_labels_list, gt_boxes_list, return_dict) on a
\* batch whose images have gt_nums_per_image ground truths: the instance after
\* the call and the returned value, a structured record or a plain tuple.
cdn_forward(self, gt_nums_per_image, return_dict) ==
    LET use_dict == IF IsSome(return_dict) THEN Get(return_dict) ELSE self.return_dict
        max_gt_num_per_image == MaxOf(gt_nums_per_image)
        after == [self EXCEPT !.denoising_groups =
                                  cdn_groups(self.num_denoising, max_gt_num_per_image)]
        \* the total denoising queries
        noised_query_nums == max_gt_num_per_image * after.denoising_groups * 2
        queries == [b \in DOMAIN gt_nums_per_image |->
                       [length |-> noised_query_nums,
                        filled |-> valid_slots(gt_nums_per_image[b], max_gt_num_per_image,
                                               after.denoising_groups * 2)]]
        attn_mask == generate_query_masks(after, 2 * max_gt_num_per_image)
    IN  [self |-> after,
         raised |-> attn_mask.error,
         output |-> [kind |-> IF use_dict THEN "ModelOutput" ELSE "tuple",
                     noised_label_query |-> queries,
                     noised_box_query |-> queries,
                     denoise_attn_mask |-> [size |-> attn_mask.size, mask |-> attn_mask.mask],
                     denoising_groups |-> after.denoising_groups,
                     max_gt_num_per_image |-> 2 * max_gt_num_per_image]]

(***************************************************************************)
(* RelationDetrForObjectDetection.forward                                  *)
(***************************************************************************)
\* The per-term keys of the loss function's breakdown; a key is the sequence
\* of the pieces of its name, so that k + "_hybrid" is Append(k, "_hybrid").
LossTerms == {<<"loss_ce">>, <<"loss_bbox">>, <<"loss_giou">>}

\* self.loss_function(labels, config, outputs_class, outputs_coord,
\* enc_topk_logits, enc_topk_bboxes, denoising_meta_values): a scalar loss
\* (the set of the branches summed into it), a per-term breakdown and,
\* optionally, the auxiliary outputs.
loss_function(branch, config, denoising_meta_values) ==
    LET keys == LossTerms \cup (IF IsSome(denoising_meta_values)
                                THEN {Append(k, "_dn") : k \in LossTerms} ELSE {})
    IN  [loss |-> {branch},
         loss_dict |-> [k \in keys |-> [branch |-> branch, term |-> k]],
         auxiliary_outputs |-> IF config.auxiliary_loss
                               THEN <<"head", "auxiliary_outputs">> ELSE Absent]

\* A plausible slip: the hybrid terms are merged under their own names.
merge_hybrid_NoSuffix(loss_dict, hybrid_loss_dict) ==
    [k \in DOMAIN loss_dict \cup DOMAIN hybrid_loss_dict |->
        IF k \in DOMAIN hybrid_loss_dict THEN hybrid_loss_dict[k] ELSE loss_dict[k]]

\* loss_dict.update({k + "_hybrid": v for k, v in hybrid_loss_dict.items()})
merge_hybrid(loss_dict, hybrid_loss_dict) ==
    LET renamed == {Append(k, "_hybrid") : k \in DOMAIN hybrid_loss_dict}
    IN  [k \in DOMAIN loss_dict \cup renamed |->
            IF k \in renamed THEN hybrid_loss_dict[SubSeq(k, 1, Len(k) - 1)]
            ELSE loss_dict[k]]

\* A plausible slip: the mode is not consulted.
denoising_active_IgnoresMode(self, labels) ==
    self.config.num_denoising > 0 /\ IsSome(labels)

\* self.training and self.config.num_denoising > 0 and labels is not None
denoising_active(self, labels) ==
    self.training /\ self.config.num_denoising > 0 /\ IsSome(labels)

\* The fields of RelationDetrObjectDetectionOutput in their declared order
DetectionFields ==
    <<"loss", "loss_dict", "logits", "pred_boxes", "auxiliary_outputs",
      "init_reference_points", "dec_outputs_class", "dec_outputs_coord",
      "enc_outputs_class", "enc_outputs_coord", "last_hidden_state",
      "intermediate_hidden_states", "intermediate_reference_points",
      "decoder_hidden_states", "decoder_attentions", "cross_attentions",
      "encoder_last_hidden_state", "encoder_hidden_states", "encoder_attentions",
      "hybrid_hidden_states", "hybrid_attentions", "hybrid_cross_attentions",
      "hybrid_outputs_class", "hybrid_outputs_coord",
      "hybrid_enc_outputs_class", "hybrid_enc_outputs_coord">>

\* ModelOutput.to_tuple(): the fields that are not None, in declared order
to_tuple(output) ==
    DropAbsent([i \in DOMAIN DetectionFields |-> output[DetectionFields[i]]])

\* What a call that raised leaves behind
Raised(self, exception, generator_invoked, model_input) ==
    [self |-> self,
     raised |-> exception,
     return_dict |-> FALSE,
     generator_invoked |-> generator_invoked,
     noised_embeddings |-> Absent,
     model_called |-> model_input # Absent,
     model_input |-> model_input,
     model |-> Absent,
     loss_calls |-> << >>,
     reads |-> Absent,
     loss |-> {},
     loss_dict |-> Absent,
     out |-> Absent]

\* The first part of RelationDetrForObjectDetection.forward: the arguments
\* of self.model(...), given what the denoising generator returned
detection_model_input(self, inp, noised_embeddings) ==
    LET return_dict == IF IsSome(inp.return_dict) THEN Get(inp.return_dict)
                       ELSE self.config.use_return_dict
        denoise == denoising_active(self, inp.labels)
        generated == noised_embeddings.output
        \* note multi-head attention mask is opposite to that of torchvision
        self_attention_mask ==
            IF denoise
            THEN BoolMask(generated.denoise_attn_mask.size,
                          [p \in DOMAIN generated.denoise_attn_mask.mask |->
                              ~generated.denoise_attn_mask.mask[p]])
            ELSE NoMask
    IN  inp.scene @@
        [output_attentions |-> inp.output_attentions,
         output_hidden_states |-> inp.output_hidden_states,
         return_dict |-> return_dict,
         self_attention_mask |-> self_attention_mask,
         noised_label_query |-> IF denoise THEN generated.noised_label_query ELSE Absent,
         noised_box_query |-> IF denoise THEN generated.noised_box_query ELSE Absent]

\* The rest of RelationDetrForObjectDetection.forward, given what the
\* denoising generator and self.model(...) returned
detection_outputs(self, inp, noised_embeddings, outputs) ==
    LET return_dict == IF IsSome(inp.return_dict) THEN Get(inp.return_dict)
                       ELSE self.config.use_return_dict
        labels == inp.labels
        denoise == denoising_active(self, labels)
        after == IF denoise THEN [self EXCEPT !.denoising_generator = noised_embeddings.self]
                 ELSE self
        generated == noised_embeddings.output
        \* attribute access on a plain tuple
        attribute_error == return_dict /\ generated.kind = "tuple"
        denoising_meta_values ==
            IF denoise
            THEN Some([dn_num_group |-> generated.denoising_groups,
                       max_gt_num_per_image |-> generated.max_gt_num_per_image,
                       dn_num_split |-> <<generated.denoising_groups
                                              * generated.max_gt_num_per_image,
                                          self.config.num_queries>>])
            ELSE None
        model_input == detection_model_input(self, inp, noised_embeddings)
        o == outputs.out
        last == Len(o)
        outputs_class == IF return_dict THEN o.dec_outputs_class ELSE o[2]
        outputs_coord == IF return_dict THEN o.dec_outputs_coord ELSE o[3]
        enc_topk_logits == IF return_dict THEN o.enc_outputs_class ELSE o[4]
        enc_topk_coords == IF return_dict THEN o.enc_outputs_coord ELSE o[5]
        hybrid_outputs_class == IF return_dict THEN o.hybrid_outputs_class ELSE o[last - 3]
        hybrid_outputs_coord == IF return_dict THEN o.hybrid_outputs_coord ELSE o[last - 2]
        hybrid_enc_topk_logits == IF return_dict THEN o.hybrid_enc_outputs_class ELSE o[last - 1]
        hybrid_enc_topk_coords == IF return_dict THEN o.hybrid_enc_outputs_coord ELSE o[last]
        with_labels == IsSome(labels)
        with_hybrid == with_labels /\ self.training
        primary == loss_function("primary", self.config, denoising_meta_values)
        hybrid == loss_function("hybrid", self.config, None)
        primary_call == [labels |-> Get(labels),
                         outputs_class |-> outputs_class,
                         outputs_coord |-> outputs_coord,
                         enc_topk_logits |-> enc_topk_logits,
                         enc_topk_bboxes |-> enc_topk_coords,
                         denoising_meta_values |-> denoising_meta_values]
        hybrid_call == [labels |-> [b \in DOMAIN Get(labels) |->
                                       Get(labels)[b] * self.config.hybrid_assign],
                        outputs_class |-> hybrid_outputs_class,
                        outputs_coord |-> hybrid_outputs_coord,
                        enc_topk_logits |-> hybrid_enc_topk_logits,
                        enc_topk_bboxes |-> hybrid_enc_topk_coords,
                        denoising_meta_values |-> None]
        loss == IF ~with_labels THEN {}
                ELSE IF with_hybrid THEN primary.loss \cup hybrid.loss ELSE primary.loss
        loss_dict == IF ~with_labels THEN Absent
                     ELSE IF with_hybrid THEN merge_hybrid(primary.loss_dict, hybrid.loss_dict)
                     ELSE primary.loss_dict
        auxiliary_outputs == IF with_labels THEN primary.auxiliary_outputs ELSE Absent
        loss_field == IF with_labels THEN <<"head", "loss">> ELSE Absent
        loss_dict_field == IF with_labels THEN <<"head", "loss_dict">> ELSE Absent
        logits == <<"head", "logits">>
        pred_boxes == <<"head", "pred_boxes">>
        output == IF auxiliary_outputs # Absent
                  THEN <<logits, pred_boxes, auxiliary_outputs>> \o o
                  ELSE <<logits, pred_boxes>> \o o
        tuple_outputs == IF loss_field # Absent
                         THEN <<loss_field, loss_dict_field>> \o output ELSE output
        dict_outputs ==
            [loss |-> loss_field,
             loss_dict |-> loss_dict_field,
             logits |-> logits,
             pred_boxes |-> pred_boxes,
             auxiliary_outputs |-> auxiliary_outputs]
            @@ o
    IN  IF denoise /\ noised_embeddings.raised THEN
            Raised(after, "AssertionError", TRUE, Absent)
        ELSE IF denoise /\ attribute_error THEN
            Raised(after, "AttributeError", TRUE, Absent)
        ELSE IF outputs.raised THEN
            Raised(after, "ValueError", denoise, model_input)
        ELSE
            [self |-> after,
             raised |-> "no",
             return_dict |-> return_dict,
             generator_invoked |-> denoise,
             noised_embeddings |-> IF denoise THEN generated ELSE Absent,
             model_called |-> TRUE,
             model_input |-> model_input,
             model |-> outputs,
             loss_calls |-> IF ~with_labels THEN << >>
                            ELSE IF with_hybrid THEN <<primary_call, hybrid_call>>
                            ELSE <<primary_call>>,
             reads |-> [outputs_class |-> outputs_class,
                        outputs_coord |-> outputs_coord,
                        enc_topk_logits |-> IF with_labels THEN enc_topk_logits ELSE Absent,
                        enc_topk_coords |-> IF with_labels THEN enc_topk_coords ELSE Absent,
                        hybrid_outputs_class |->
                            IF with_hybrid THEN hybrid_outputs_class ELSE Absent,
                        hybrid_outputs_coord |->
                            IF with_hybrid THEN hybrid_outputs_coord ELSE Absent,
                        hybrid_enc_topk_logits |->
                            IF with_hybrid THEN hybrid_enc_topk_logits ELSE Absent,
                        hybrid_enc_topk_coords |->
                            IF with_hybrid THEN hybrid_enc_topk_coords ELSE Absent],
             loss |-> loss,
             loss_dict |-> loss_dict,
             out |-> IF return_dict THEN dict_outputs ELSE tuple_outputs]

\* RelationDetrForObjectDetection.forward(pixel_values, labels=...,
\* output_attentions=..., output_hidden_states=..., return_dict=...): the
\* generator is called (when denoising is active), then the model, each once
detection_forward(self, inp) ==
    CHOOSE result \in
        UNION {{detection_outputs(self, inp, noised_embeddings, outputs) :
                   outputs \in {model_forward(self.model,
                                               detection_model_input(self, inp,
                                                                     noised_embeddings))}} :
               \* self.denoising_generator(gt_labels_list, gt_boxes_list)
               noised_embeddings \in
                   {IF denoising_active(self, inp.labels)
                    THEN cdn_forward(self.denoising_generator, Get(inp.labels), None)
                    ELSE [self |-> self.denoising_generator,
                          raised |-> FALSE,
                          output |-> Absent]}} :
        TRUE

(***************************************************************************)
(* RelationDetrChannelMapper.  A feature map is the descriptor             *)
(* [input, convs]: the index (from 0) of the supplied map it is computed   *)
(* from and the positions in self.convs of the convolutions applied to it, *)
(* in order.                                                               *)
(***************************************************************************)
input_map(i) == [input |-> i, convs |-> << >>]

\* self.convs[conv](x)
conv_apply(conv, x) == [input |-> x.input, convs |-> Append(x.convs, conv)]

\* RelationDetrChannelMapper.__init__(in_channels, out_channels, num_outs):
\* one 1x1 convolution per configured input, then num_outs - len(in_channels)
\* 3x3 stride-2 convolutions, the first taking the last input's channels
mapper_init(in_channels, num_outs) ==
    LET n == Len(in_channels)
        extra == IF num_outs > n THEN num_outs - n ELSE 0
    IN  [in_channels |-> in_channels,
         num_outs |-> num_outs,
         convs |-> [i \in 1..(n + extra) |->
                       IF i <= n THEN [kernel_size |-> 1, in_channels |-> in_channels[i]]
                       ELSE IF i = n + 1
                            THEN [kernel_size |-> 3, in_channels |-> in_channels[n]]
                            ELSE [kernel_size |-> 3, in_channels |-> 0]]]

\* A plausible slip: every additional level is built from the previous output.
RECURSIVE mapper_extra_FromOutputs(_, _, _, _, _)
mapper_extra_FromOutputs(outs, i, inputs_len, convs_len, start) ==
    IF i >= convs_len THEN outs
    ELSE mapper_extra_FromOutputs(Append(outs, conv_apply(start + i, outs[Len(outs)])),
                                  i + 1, inputs_len, convs_len, start)

\* The loop `for i in range(len(inputs), len(convs))` of forward from index
\* i on: outs grows by one map per iteration; start + i is the position in
\* self.convs of convs[i]
RECURSIVE mapper_extra(_, _, _, _, _)
mapper_extra(outs, i, inputs_len, convs_len, start) ==
    IF i >= convs_len THEN outs
    ELSE mapper_extra(Append(outs,
                             conv_apply(start + i,
                                        IF i = inputs_len THEN input_map(inputs_len - 1)
                                        ELSE outs[Len(outs)])),
                      i + 1, inputs_len, convs_len, start)

\* RelationDetrChannelMapper.forward(inputs) on inputs_len maps given as a
\* dict, a list or something else
mapper_forward(self, inputs_kind, inputs_len) ==
    LET n == Len(self.in_channels)
        start == n - inputs_len
        convs_len == Len(self.convs) - start
        outs == [i \in 1..inputs_len |-> conv_apply(start + i - 1, input_map(i - 1))]
    IN  IF inputs_kind \notin {"dict", "list"} THEN [raised |-> "AssertionError", outs |-> << >>]
        ELSE IF inputs_len > n THEN [raised |-> "AssertionError", outs |-> << >>]
        \* inputs[-1] of an empty list
        ELSE IF inputs_len = 0 /\ convs_len > 0 THEN [raised |-> "IndexError", outs |-> << >>]
        ELSE [raised |-> "no",
              outs |-> mapper_extra(outs, inputs_len, inputs_len, convs_len, start)]

(***************************************************************************)
(* replace_batch_norm.  A module is a record [obj, class, num_features,    *)
(* device, stats, children]: obj tells objects apart (who created it and   *)
(* where), stats are the four per-channel vectors, each abbreviated to one *)
(* number, children the registered submodules in order.                    *)
(***************************************************************************)
\* RelationDetrFrozenBatchNorm2d.__init__(n): weight ones, bias zeros,
\* running_mean zeros, running_var ones
frozen_init(n, obj) ==
    [obj |-> obj,
     class |-> "RelationDetrFrozenBatchNorm2d",
     num_features |-> n,
     device |-> "cpu",
     stats |-> [weight |-> 1, bias |-> 0, running_mean |-> 0, running_var |-> 1],
     children |-> << >>]

\* A plausible slip: only the direct children are visited.
replace_batch_norm_Shallow(parent) ==
    [parent EXCEPT !.children =
        [i \in DOMAIN parent.children |->
            LET module == parent.children[i]
                new_module == frozen_init(module.num_features,
                                          [made_by |-> "replace_batch_norm", path |-> module.obj.path])
            IN  IF module.class = "BatchNorm2d"
                THEN IF module.device # "meta"
                     THEN [new_module EXCEPT !.stats = module.stats]
                     ELSE new_module
                ELSE module]]

\* replace_batch_norm(model): the module passed as model, after the call.
\* The recursion is entered with the old child, so a replaced child's own
\* children are not part of the result.
RECURSIVE replace_batch_norm(_)
replace_batch_norm(parent) ==
    [parent EXCEPT !.children =
        [i \in DOMAIN parent.children |->
            LET module == parent.children[i]
                new_module == frozen_init(module.num_features,
                                          [made_by |-> "replace_batch_norm", path |-> module.obj.path])
            IN  IF module.class = "BatchNorm2d"
                THEN IF module.device # "meta"
                     THEN [new_module EXCEPT !.stats = module.stats]
                     ELSE new_module
                ELSE IF Len(module.children) > 0
                     THEN replace_batch_norm(module)
                     ELSE module]]

(***************************************************************************)
(* The scatter of the noised embeddings in GenerateDNQueries.forward and   *)
(* GenerateCDNQueries.forward.  Images, ground truths, replications and    *)
(* slots are counted from 0 as in the code; tensors are sequences.  A      *)
(* noised embedding is known by the ground truth it was made from:         *)
(* [image, gt, replication, shifted].                                      *)
(***************************************************************************)
\* torch.cat(gt_labels_list) from image b on: the ground truths in order
RECURSIVE cat_gt(_, _)
cat_gt(gt_nums_per_image, b) ==
    IF b > Len(gt_nums_per_image) THEN << >>
    ELSE [j \in 1..gt_nums_per_image[b] |-> [image |-> b - 1, gt |-> j - 1]]
             \o cat_gt(gt_nums_per_image, b + 1)

\* x.repeat(times, 1) followed by the noise and the encoding, which keep
\* the order: entry e is made from x[e mod len(x)] in replication
\* e // len(x); shifted tells whether apply_box_noise added 1 to rand_part
noised(x, times, negative_idx) ==
    [e \in 1..(times * Len(x)) |->
        [image |-> x[((e - 1) % Len(x)) + 1].image,
         gt |-> x[((e - 1) % Len(x)) + 1].gt,
         replication |-> (e - 1) \div Len(x),
         shifted |-> (e - 1) \in negative_idx]]

\* torch.repeat_interleave(batch_idx, gt_nums_per_image) from image b on
RECURSIVE repeat_interleave(_, _)
repeat_interleave(gt_nums_per_image, b) ==
    IF b > Len(gt_nums_per_image) THEN << >>
    ELSE [j \in 1..gt_nums_per_image[b] |-> b - 1]
             \o repeat_interleave(gt_nums_per_image, b + 1)

\* x.repeat(times, 1).flatten() of an index tensor
repeat_flat(x, times) ==
    [e \in 1..(times * Len(x)) |-> x[((e - 1) % Len(x)) + 1]]

\* torch.cat([torch.arange(num) for num in gt_nums_per_image]) from image b on
RECURSIVE cat_arange(_, _)
cat_arange(gt_nums_per_image, b) ==
    IF b > Len(gt_nums_per_image) THEN << >>
    ELSE [j \in 1..gt_nums_per_image[b] |-> j - 1]
             \o cat_arange(gt_nums_per_image, b + 1)

\* torch.cat([valid_index_per_group + max_gt_num_per_image * i for i in range(times)])
valid_index_per_group(gt_nums_per_image, max_gt_num_per_image, times) ==
    LET valid_index == cat_arange(gt_nums_per_image, 1)
    IN  [e \in 1..(times * Len(valid_index)) |->
            valid_index[((e - 1) % Len(valid_index)) + 1]
                + max_gt_num_per_image * ((e - 1) \div Len(valid_index))]

\* torch.zeros(batch_size, noised_query_nums, ...): every slot holds zero (None)
zero_queries(batch_size, noised_query_nums) ==
    [p \in (0..(batch_size - 1)) \X (0..(noised_query_nums - 1)) |-> None]

\* queries[(batch_idx, valid_index)] = values: values[e] goes to slot
\* (batch_idx[e], valid_index[e]); the last write to a slot is the one kept
index_put(queries, batch_idx, valid_index, values) ==
    [p \in DOMAIN queries |->
        LET writers == {e \in DOMAIN batch_idx : <<batch_idx[e], valid_index[e]>> = p}
        IN  IF writers = {} THEN queries[p]
            ELSE Some(values[CHOOSE e \in writers : \A f \in writers : f <= e])]

\* A plausible slip: the negatives are the second half of the whole tensor.
cdn_negative_idx_SecondHalf(self, boxes_len) ==
    LET num_boxes == (boxes_len \div self.denoising_groups) \div 2
        positive_idx == {t + g * num_boxes :
                             t \in 0..(num_boxes - 1), g \in 0..(self.denoising_groups - 1)}
    IN  {p + num_boxes * self.denoising_groups : p \in positive_idx}

\* negative_idx of GenerateCDNQueries.apply_box_noise(boxes): positions in
\* the replicated boxes
cdn_negative_idx(self, boxes_len) ==
    LET num_boxes == (boxes_len \div self.denoising_groups) \div 2
        positive_idx == {t + g * num_boxes * 2 :
                             t \in 0..(num_boxes - 1), g \in 0..(self.denoising_groups - 1)}
    IN  {p + num_boxes : p \in positive_idx}

\* A plausible slip: every replication is offset by the number of ground
\* truths of the batch instead of the largest number per image.
noised_queries_FlatOffset(gt_nums_per_image, times, negative_idx) ==
    LET gt == cat_gt(gt_nums_per_image, 1)
        max_gt_num_per_image == MaxOf(gt_nums_per_image)
        label_embedding == noised(gt, times, {})
        noised_boxes == noised(gt, times, negative_idx)
        batch_size == Len(gt_nums_per_image)
        noised_query_nums == max_gt_num_per_image * times
        batch_idx_per_group == repeat_flat(repeat_interleave(gt_nums_per_image, 1), times)
        valid_index == valid_index_per_group(gt_nums_per_image, Len(gt), times)
        zero == zero_queries(batch_size, noised_query_nums)
        out_of_range == \E e \in DOMAIN valid_index : valid_index[e] >= noised_query_nums
    IN  [batch_idx_per_group |-> batch_idx_per_group,
         valid_index_per_group |-> valid_index,
         negative_idx |-> negative_idx,
         raised |-> IF out_of_range THEN "IndexError" ELSE "no",
         noised_label_queries |->
             IF Len(batch_idx_per_group) > 0 /\ ~out_of_range
             THEN index_put(zero, batch_idx_per_group, valid_index, label_embedding)
             ELSE zero,
         noised_box_queries |->
             IF Len(batch_idx_per_group) > 0 /\ ~out_of_range
             THEN index_put(zero, batch_idx_per_group, valid_index, noised_boxes)
             ELSE zero]

\* The part of both forward methods from the replication of the ground
\* truths to the scatter, for `times` replications (denoising_groups, or
\* denoising_groups * 2 in the contrastive generator)
noised_queries(gt_nums_per_image, times, negative_idx) ==
    LET gt == cat_gt(gt_nums_per_image, 1)
        max_gt_num_per_image == MaxOf(gt_nums_per_image)
        label_embedding == noised(gt, times, {})
        noised_boxes == noised(gt, times, negative_idx)
        batch_size == Len(gt_nums_per_image)
        noised_query_nums == max_gt_num_per_image * times
        batch_idx_per_group == repeat_flat(repeat_interleave(gt_nums_per_image, 1), times)
        valid_index == valid_index_per_group(gt_nums_per_image, max_gt_num_per_image, times)
        zero == zero_queries(batch_size, noised_query_nums)
        out_of_range == \E e \in DOMAIN valid_index : valid_index[e] >= noised_query_nums
    IN  [batch_idx_per_group |-> batch_idx_per_group,
         valid_index_per_group |-> valid_index,
         negative_idx |-> negative_idx,
         raised |-> IF out_of_range THEN "IndexError" ELSE "no",
         noised_label_queries |->
             IF Len(batch_idx_per_group) > 0 /\ ~out_of_range
             THEN index_put(zero, batch_idx_per_group, valid_index, label_embedding)
             ELSE zero,
         noised_box_queries |->
             IF Len(batch_idx_per_group) > 0 /\ ~out_of_range
             THEN index_put(zero, batch_idx_per_group, valid_index, noised_boxes)
             ELSE zero]

\* GenerateDNQueries.forward: the static apply_box_noise shifts no entry,
\* the group count is the constructor's, the mask is built for blocks of
\* max_gt_num_per_image
dn_forward(self, gt_nums_per_image) ==
    LET max_gt_num_per_image == MaxOf(gt_nums_per_image)
        attn_mask == generate_query_masks(self, max_gt_num_per_image)
    IN  [self |-> self,
         times |-> self.denoising_groups,
         queries |-> noised_queries(gt_nums_per_image, self.denoising_groups, {}),
         denoise_attn_mask |-> [size |-> attn_mask.size, mask |-> attn_mask.mask],
         denoising_groups |-> self.denoising_groups,
         max_gt_num_per_image |-> max_gt_num_per_image]

\* A plausible slip: the ground truths are replicated before the group
\* count is recomputed.
cdn_forward_queries_StaleGroups(self, gt_nums_per_image) ==
    LET max_gt_num_per_image == MaxOf(gt_nums_per_image)
        after == [self EXCEPT !.denoising_groups =
                                  cdn_groups(self.num_denoising, max_gt_num_per_image)]
        boxes_len == Len(cat_gt(gt_nums_per_image, 1)) * self.denoising_groups * 2
        attn_mask == generate_query_masks(after, 2 * max_gt_num_per_image)
    IN  [self |-> after,
         times |-> self.denoising_groups * 2,
         queries |-> noised_queries(gt_nums_per_image, self.denoising_groups * 2,
                                    cdn_negative_idx(after, boxes_len)),
         denoise_attn_mask |-> [size |-> attn_mask.size, mask |-> attn_mask.mask],
         denoising_groups |-> after.denoising_groups,
         max_gt_num_per_image |-> 2 * max_gt_num_per_image]

\* GenerateCDNQueries.forward with its index tensors and buffers
cdn_forward_queries(self, gt_nums_per_image) ==
    LET max_gt_num_per_image == MaxOf(gt_nums_per_image)
        after == [self EXCEPT !.denoising_groups =
                                  cdn_groups(self.num_denoising, max_gt_num_per_image)]
        boxes_len == Len(cat_gt(gt_nums_per_image, 1)) * after.denoising_groups * 2
        attn_mask == generate_query_masks(after, 2 * max_gt_num_per_image)
    IN  [self |-> after,
         times |-> after.denoising_groups * 2,
         queries |-> noised_queries(gt_nums_per_image, after.denoising_groups * 2,
                                    cdn_negative_idx(after, boxes_len)),
         denoise_attn_mask |-> [size |-> attn_mask.size, mask |-> attn_mask.mask],
         denoising_groups |-> after.denoising_groups,
         max_gt_num_per_image |-> 2 * max_gt_num_per_image]

(***************************************************************************)
(* RelationDetrConvEncoder and RelationDetrModel.freeze_backbone /         *)
(* unfreeze_backbone.  An object is a record of its attributes; reading an *)
(* attribute an nn.Module does not have raises AttributeError.  A          *)
(* parameter set is a function from parameter names to requires_grad.      *)
(***************************************************************************)
\* Parameter-name prefixes of the feature extractor: a timm model or a
\* backbone loaded through the AutoBackbone API
backbone_parameters(use_timm_backbone) ==
    IF use_timm_backbone
    THEN {"conv1", "layer1", "layer2", "layer3", "layer4"}
    ELSE {"embedder", "stage.0", "stage.1", "stage.2", "stage.3"}

\* RelationDetrConvEncoder.__init__(config): the attributes it sets; for a
\* resnet every parameter outside the last three stages is frozen
conv_encoder_init(config) ==
    LET names == backbone_parameters(config.use_timm_backbone)
        kept == IF config.use_timm_backbone
                THEN {"layer2", "layer3", "layer4"}
                ELSE {"stage.1", "stage.2", "stage.3"}
    IN  [config |-> config,
         model |-> [n \in names |->
                       IF config.backbone_model_type = "resnet" THEN n \in kept ELSE TRUE],
         intermediate_channel_sizes |-> <<1, 2, 3>>]

\* RelationDetrModel.__init__(config): the backbone adapter and the
\* parameters created outside it, all trainable
detr_model_init(config) ==
    [backbone |-> conv_encoder_init(config),
     others |-> [n \in {"neck", "encoder", "decoder", "level_embed"} |-> TRUE]]

\* The body shared by freeze_backbone (value = False) and unfreeze_backbone
\* (value = True): `for name, param in
\* self.backbone.conv_encoder.model.named_parameters():
\* param.requires_grad_(value)`
set_backbone_grad(self, value) ==
    IF "conv_encoder" \notin DOMAIN self.backbone
    THEN [self |-> self, raised |-> "AttributeError"]
    ELSE [self |-> [self EXCEPT !.backbone.conv_encoder.model =
                        [n \in DOMAIN self.backbone.conv_encoder.model |-> value]],
          raised |-> "no"]

\* RelationDetrModel.freeze_backbone()
freeze_backbone(self) == set_backbone_grad(self, FALSE)

\* RelationDetrModel.unfreeze_backbone()
unfreeze_backbone(self) == set_backbone_grad(self, TRUE)

(***************************************************************************)
(* Shapes of the self-attention masks in RelationDetrDecoder.  A tensor    *)
(* shape is the sequence of its dimensions, << >> standing for None.       *)
(***************************************************************************)
\* The configuration fields the decoder's attention shapes depend on
DecoderShapeConfigs ==
    [d_model : 1..MaxModelDim,
     decoder_attention_heads : 1..MaxHeads,
     num_attention_heads : 1..MaxHeads,
     decoder_layers : 1..MaxLayers]

\* RelationDetrMultiheadAttention.__init__(embed_dim, num_heads)
mha_init(embed_dim, num_heads) ==
    LET head_dim == embed_dim \div num_heads
    IN  IF head_dim * num_heads # embed_dim
        THEN [raised |-> "ValueError", embed_dim |-> embed_dim, num_heads |-> num_heads]
        ELSE [raised |-> "no", embed_dim |-> embed_dim, num_heads |-> num_heads]

\* RelationDetrDecoder.__init__(config): every layer's self-attention is
\* built with config.decoder_attention_heads, the relation embedding with
\* config.num_attention_heads
decoder_shape_init(config) ==
    LET self_attn == mha_init(config.d_model, config.decoder_attention_heads)
    IN  [raised |-> self_attn.raised,
         config |-> config,
         self_attn |-> self_attn,
         position_relation_embedding |-> [num_heads |-> config.num_attention_heads]]

\* The attention-mask checks of RelationDetrMultiheadAttention.forward for
\* hidden states of shape (batch_size, target_len, embed_dim)
mha_mask_check(self, attention_mask, batch_size, target_len) ==
    IF attention_mask = << >> THEN "no"
    ELSE IF Len(attention_mask) = 2
         THEN IF attention_mask # <<target_len, target_len>> THEN "ValueError" ELSE "no"
    ELSE IF Len(attention_mask) = 3
         THEN IF attention_mask # <<batch_size * self.num_heads, target_len, target_len>>
              THEN "ValueError" ELSE "no"
    ELSE "ValueError"

\* self.position_relation_embedding(src_boxes, outputs_coord).flatten(0, 1)
\* for boxes of shape (batch_size, num_boxes, 4): pos_proj has num_heads
\* output channels
position_relation_shape(self, batch_size, num_boxes) ==
    <<batch_size * self.position_relation_embedding.num_heads, num_boxes, num_boxes>>

\* The loop over the layers of RelationDetrDecoder.forward from layer idx
\* on: the mask shapes handed to the layers so far and the first exception
RECURSIVE decoder_shape_loop(_, _, _, _, _, _)
decoder_shape_loop(self, idx, position_relation, masks, batch_size, target_len) ==
    IF idx >= self.config.decoder_layers THEN [raised |-> "no", masks |-> masks]
    ELSE IF mha_mask_check(self.self_attn, position_relation, batch_size, target_len) # "no"
         THEN [raised |-> "ValueError", masks |-> Append(masks, position_relation)]
    ELSE decoder_shape_loop(self, idx + 1,
                            position_relation_shape(self, batch_size, target_len),
                            Append(masks, position_relation), batch_size, target_len)

\* RelationDetrDecoder.forward(inputs_embeds, self_attention_mask) with
\* skip_relation = False: position_relation starts as self_attention_mask
decoder_shape_forward(self, self_attention_mask, batch_size, target_len) ==
    decoder_shape_loop(self, 0, self_attention_mask, << >>, batch_size, target_len)

(***************************************************************************)
(* States and actions                                                      *)
(***************************************************************************)
MaskInit ==
    /\ gen \in [denoising_groups : 1..MaxGroups, num_queries : 0..MaxGenQueries]
    /\ mask_call = None

MaskIdle ==
    /\ gen = None
    /\ mask_call = None

AttnIdle ==
    /\ env = None
    /\ MultiScaleDeformableAttention = "None"
    /\ modules = << >>
    /\ loads = None
    /\ attn_call = None

\* A fresh process: the handle is None (module level, line 56), nothing constructed.
AttnInit ==
    /\ env \in [cuda : BOOLEAN, ninja : BOOLEAN]
    /\ MultiScaleDeformableAttention = "None"
    /\ modules = << >>
    /\ loads = [inits |-> 0, calls |-> 0, ok |-> 0, failed |-> 0]
    /\ attn_call = None

\* Constructor arguments: d_model = 4 with 2 heads is valid, with 3 heads is not.
AttnConfigs ==
    [d_model : {4}, num_heads : {2, 3}, disable_custom_kernels : BOOLEAN, n_points : {1, 4}]

\* Forward inputs: two feature levels of (height, width), reference
\* points with last dimension d whose components are pairwise distinct, and
\* sampling offsets (x, y) per level.
ShapesPool == {<< <<2, 3>>, <<3, 1>> >>}
RefPoint(d, s) == [c \in 1..d |-> <<c + s, 8>>]
Offsets(l) == << <<l, 1>>, <<-3, l>> >>
AttnInputs(m) ==
    {[module |-> m,
      spatial_shapes |-> sh,
      sequence_length |-> SumElements(sh) + extra,
      reference_points |-> [l \in DOMAIN sh |-> RefPoint(d, l - 1)],
      sampling_offsets |-> [l \in DOMAIN sh |-> Offsets(l)],
      kernel_raises |-> kr] :
        sh \in ShapesPool, extra \in {0, 1}, d \in 2..5, kr \in BOOLEAN}

\* RelationDetrMultiscaleDeformableAttention(config, num_heads, n_points)
AttnConstruct ==
    /\ loads.inits < MaxInits
    /\ \E config \in AttnConfigs, build_ok \in BOOLEAN :
        LET r == attn_init(MultiScaleDeformableAttention, env, config, build_ok)
        IN  /\ MultiScaleDeformableAttention' = r.handle
            /\ modules' = IF r.raised = "None" THEN Append(modules, r.module) ELSE modules
            /\ loads' = [inits |-> loads.inits + 1,
                         calls |-> loads.calls + (IF r.load_called THEN 1 ELSE 0),
                         ok |-> loads.ok + (IF r.load_called /\ ~r.build_failed THEN 1 ELSE 0),
                         failed |-> loads.failed + (IF r.build_failed THEN 1 ELSE 0)]
            /\ attn_call' = Some(r)
    /\ UNCHANGED env

\* module.forward(...) on a constructed module
AttnForward ==
    /\ \E m \in DOMAIN modules :
        \E inp \in AttnInputs(m) :
            attn_call' = Some(attn_forward(modules[m], MultiScaleDeformableAttention, inp))
    /\ UNCHANGED <<env, MultiScaleDeformableAttention, modules, loads>>

RatioIdle == ratio_call = None

RatioInit == ratio_call = None

\* Maps of shape (h, w) that are TRUE exactly on the rectangle of rows r0..r1-1
\* and columns c0..c1-1 (empty when r0 = r1 or c0 = c1).
RectMaps(h, w) ==
    {BoolMap(h, w, [p \in Cells(h, w) |->
                       r0 <= p[1] /\ p[1] < r1 /\ c0 <= p[2] /\ p[2] < c1]) :
        r0 \in 0..h, r1 \in 0..h, c0 \in 0..w, c1 \in 0..w}

\* Pixel masks (TRUE = real pixel) of every shape up to MaxSide x MaxSide
PixelMasks == UNION {RectMaps(h, w) : h \in 1..MaxSide, w \in 1..MaxSide}

\* Sizes the backbone and neck give a feature level of an image of side n
LevelSides(n) == {n, (n + 1) \div 2}
LevelSizes(pixel_mask) ==
    {<<h, w>> : h \in LevelSides(pixel_mask.h), w \in LevelSides(pixel_mask.w)}

\* RelationDetrModel.get_valid_ratios(mask) called on a padding mask of any
\* shape, a zero-sized one included
GetValidRatios ==
    /\ ratio_call = None
    /\ \E h \in 0..MaxSide, w \in 0..MaxSide :
        \E valid \in RectMaps(h, w) :
            ratio_call' = Some([op |-> "get_valid_ratios",
                                mask |-> Invert(valid),
                                valid_ratio |-> get_valid_ratios(Invert(valid))])

\* get_multi_levels, multi_level_misc and get_reference of one forward call
MultiLevelMisc ==
    /\ ratio_call = None
    /\ \E pixel_mask \in PixelMasks :
        \E s1 \in LevelSizes(pixel_mask), s2 \in LevelSizes(pixel_mask) :
            ratio_call' = Some(multi_level_misc(pixel_mask, <<s1, s2>>))

ModelIdle ==
    /\ model = None
    /\ fwd_input = None
    /\ fwd_call = None
    /\ fwd_prev = None

\* The values a first-stage class logit takes
Logits == {0, 1}

\* A constructed RelationDetrModel: its configuration (here with a one-layer
\* decoder), its mode, its learned first-stage class head and the tie order
\* of the build's torch.topk
Models ==
    [config : [num_queries : 1..MaxNumQueries, hybrid_queries : 0..MaxNumQueries,
               decoder_layers : {1}],
     training : BOOLEAN,
     class_head : [0..MaxFeature -> Logits],
     tie_rule : {"low", "high"}]

\* Proposals (centre, size) in hundredths: the first is valid, the second not
ProposalPool == {<<50, 5>>, <<99, 5>>}

\* The flattened encoder positions of an image: memory vector, validity mask
\* (TRUE = real position) and proposal of every position
Scenes ==
    UNION {[memory : [1..n -> 0..MaxFeature],
            mask_flatten : [1..n -> BOOLEAN],
            proposals : [1..n -> ProposalPool]] : n \in 1..MaxPositions}

\* Images without padding whose proposals are all valid
PlainScenes ==
    {sc \in Scenes : \A p \in DOMAIN sc.memory :
                        /\ sc.mask_flatten[p]
                        /\ sc.proposals[p] = <<50, 5>>
                        /\ sc.memory[p] = p % (MaxFeature + 1)}

Flags == [output_attentions : BOOLEAN, output_hidden_states : BOOLEAN, return_dict : BOOLEAN]
DefaultFlags ==
    [output_attentions |-> FALSE, output_hidden_states |-> FALSE, return_dict |-> TRUE]

\* The model called without denoising queries and without a self-attention mask
NoDenoising ==
    [noised_label_query |-> Absent, noised_box_query |-> Absent, self_attention_mask |-> NoMask]

\* Every mode and every combination of the output flags, on plain images
ModelInit ==
    /\ model \in Models
    /\ \E sc \in PlainScenes, fl \in Flags : fwd_input = sc @@ fl @@ NoDenoising
    /\ fwd_call = None
    /\ fwd_prev = None

\* Every image, padded or not, in evaluation mode with the default flags
TwoStageInit ==
    /\ model \in {m \in Models : ~m.training /\ m.config.hybrid_queries = 0}
    /\ \E sc \in Scenes : fwd_input = sc @@ DefaultFlags @@ NoDenoising
    /\ fwd_call = None
    /\ fwd_prev = None

\* model(pixel_values, ...): one call of RelationDetrModel.forward
ModelForward ==
    /\ fwd_prev' = fwd_call
    /\ fwd_call' = Some(model_forward(model, fwd_input))
    /\ UNCHANGED <<model, fwd_input>>

GenerateQueryMasks ==
    \E M \in 0..MaxGt :
        /\ mask_call' = Some([max_gt |-> M, result |-> generate_query_masks(gen, M)])
        /\ UNCHANGED gen

CdnIdle ==
    /\ cdn = None
    /\ cdn_call = None

HeadIdle ==
    /\ detector = None
    /\ det_input = None
    /\ det_call = None

DecoderIdle == dec = None

\* GenerateCDNQueries.__init__: denoising_groups starts at 1
CdnInit ==
    /\ cdn \in [num_denoising : 0..MaxDenoising,
                num_queries : 1..MaxNumQueries,
                denoising_groups : {1},
                return_dict : BOOLEAN]
    /\ cdn_call = None

\* Ground-truth counts of the images of a batch of one or two images
Batches == UNION {[1..n -> 0..MaxBoxes] : n \in {1, 2}}

\* generator(gt_labels_list, gt_boxes_list, return_dict)
CdnForward ==
    \E gt_nums_per_image \in Batches, return_dict \in {None, Some(TRUE), Some(FALSE)} :
        LET r == cdn_forward(cdn, gt_nums_per_image, return_dict)
        IN  /\ cdn' = r.self
            /\ cdn_call' = Some([before |-> cdn,
                                 gt_nums_per_image |-> gt_nums_per_image,
                                 return_dict |-> return_dict,
                                 raised |-> r.raised,
                                 output |-> r.output])

\* The masks the denoising generators produce, inverted as the detection
\* head inverts them
GeneratorMasks ==
    {LET r == generate_query_masks([denoising_groups |-> g, num_queries |-> q], M)
     IN  BoolMask(r.size, [p \in DOMAIN r.mask |-> ~r.mask[p]]) :
        g \in 1..2, q \in 1..MaxNumQueries, M \in 0..MaxBoxes}

\* decoder(inputs_embeds, self_attention_mask, skip_relation, ...) is entered:
\* any number of layers, no mask or a generator's mask, a query sequence
\* that fits the mask or is one shorter
DecoderInit ==
    \E decoder_layers \in 1..MaxLayers, mask \in GeneratorMasks \cup {NoMask},
       skip_relation \in BOOLEAN, short \in 0..1 :
        /\ mask.size - short >= 1 \/ mask.dtype = "none"
        /\ dec = Some([decoder_layers |-> decoder_layers,
                       length |-> IF mask.dtype = "none" THEN 2 - short ELSE mask.size - short,
                       self_attention_mask |-> mask,
                       skip_relation |-> skip_relation,
                       prev |-> decoder_start(mask),
                       st |-> decoder_start(mask)])

\* One iteration of the layer loop
DecoderLayer ==
    /\ IsSome(dec)
    /\ ~Get(dec).st.raised
    /\ Get(dec).st.idx < Get(dec).decoder_layers
    /\ dec' = Some([Get(dec) EXCEPT
                       !.prev = Get(dec).st,
                       !.st = decoder_layer(Get(dec).st, Get(dec).length,
                                            Get(dec).self_attention_mask,
                                            Get(dec).skip_relation)])

\* RelationDetrForObjectDetection.__init__ followed by train() or eval():
\* the model and the generator are built from the same config and share the
\* mode of the detector
Detectors ==
    {[config |-> [num_queries |-> q, hybrid_queries |-> 1, hybrid_assign |-> 2,
                  decoder_layers |-> MaxLayers, num_denoising |-> n,
                  use_return_dict |-> u, auxiliary_loss |-> a],
      training |-> t,
      model |-> [config |-> [num_queries |-> q, hybrid_queries |-> 1,
                             decoder_layers |-> MaxLayers],
                 training |-> t,
                 class_head |-> [f \in 0..MaxFeature |-> 0],
                 tie_rule |-> "low"],
      denoising_generator |-> [num_denoising |-> n, num_queries |-> q,
                               denoising_groups |-> 1, return_dict |-> u]] :
        q \in 1..MaxNumQueries, n \in {0, 1, MaxDenoising},
        u \in BOOLEAN, a \in BOOLEAN, t \in BOOLEAN}

\* labels: None, or the ground-truth counts of the images of the batch
LabelBatches ==
    {None} \cup {Some(<<m>>) : m \in 0..MaxBoxes} \cup {Some(<<MaxBoxes, 0>>)}

HeadInit ==
    /\ detector \in Detectors
    /\ \E sc \in PlainScenes, oa \in BOOLEAN, ohs \in BOOLEAN,
          labels \in LabelBatches, rd \in {None, Some(TRUE), Some(FALSE)} :
           det_input = [scene |-> sc, labels |-> labels, return_dict |-> rd,
                        output_attentions |-> oa, output_hidden_states |-> ohs]
    /\ det_call = None

\* model(pixel_values, labels=labels, ...)
DetectionForward ==
    \E r \in {detection_forward(detector, det_input)} :
        /\ detector' = r.self
        /\ det_call' = Some(r)
        /\ UNCHANGED det_input

MapperIdle ==
    /\ mapper = None
    /\ map_call = None

\* RelationDetrChannelMapper(in_channels, out_channels, num_outs) with one to
\* MaxLevels input levels of channel widths 1, 2, ...
MapperInit ==
    /\ \E n \in 1..MaxLevels, num_outs \in 1..MaxOuts :
           mapper = mapper_init([i \in 1..n |-> i], num_outs)
    /\ map_call = None

\* neck(inputs)
MapperForward ==
    \E inputs_kind \in {"dict", "list", "tensor"},
       inputs_len \in 0..(Len(mapper.in_channels) + 1) :
        /\ map_call' = Some([inputs_kind |-> inputs_kind,
                             inputs_len |-> inputs_len,
                             result |-> mapper_forward(mapper, inputs_kind, inputs_len)])
        /\ UNCHANGED mapper

BatchNormIdle ==
    /\ tree = None
    /\ bn_call = None

\* Modules without children: a plain module, a trained BatchNorm2d and a
\* BatchNorm2d on the meta device (no data behind its tensors)
LeafModules ==
    { [class |-> "Module", num_features |-> 0, device |-> "cpu",
       stats |-> [weight |-> 0, bias |-> 0, running_mean |-> 0, running_var |-> 0],
       children |-> << >>],
      [class |-> "BatchNorm2d", num_features |-> 1, device |-> "cpu",
       stats |-> [weight |-> 2, bias |-> 3, running_mean |-> 4, running_var |-> 5],
       children |-> << >>],
      [class |-> "BatchNorm2d", num_features |-> 2, device |-> "meta",
       stats |-> [weight |-> -1, bias |-> -1, running_mean |-> -1, running_var |-> -1],
       children |-> << >>] }

\* A plain module holding the given submodules
Container(children) ==
    [class |-> "Module", num_features |-> 0, device |-> "cpu",
     stats |-> [weight |-> 0, bias |-> 0, running_mean |-> 0, running_var |-> 0],
     children |-> children]

InnerModules ==
    LeafModules \cup
    { Container(children) : children \in UNION { [1..k -> LeafModules] : k \in 1..MaxChildren } }

RootModules ==
    LeafModules \cup
    { Container(children) : children \in UNION { [1..k -> InnerModules] : k \in 1..MaxChildren } }

\* Gives every module of a tree its identity: created by the caller at path
RECURSIVE construct_modules(_, _)
construct_modules(module, path) ==
    [obj |-> [made_by |-> "caller", path |-> path],
     class |-> module.class,
     num_features |-> module.num_features,
     device |-> module.device,
     stats |-> module.stats,
     children |-> [i \in DOMAIN module.children |->
                      construct_modules(module.children[i], Append(path, i))]]

BatchNormInit ==
    /\ \E root \in RootModules : tree = Some(construct_modules(root, << >>))
    /\ bn_call = None

\* replace_batch_norm(model), mutating the tree in place
ReplaceBatchNorm ==
    \E after \in {replace_batch_norm(Get(tree))} :
        /\ bn_call' = Some([before |-> Get(tree), after |-> after])
        /\ tree' = Some(after)

NoiseIdle ==
    /\ noise_gen = None
    /\ noise_call = None

\* GenerateDNQueries(num_queries, ..., denoising_groups) or
\* GenerateCDNQueries(num_denoising, num_queries, ...), whose
\* denoising_groups starts at 1
NoiseInit ==
    /\ \/ noise_gen \in [class : {"GenerateDNQueries"},
                         num_denoising : {0},
                         num_queries : 1..MaxNumQueries,
                         denoising_groups : 1..MaxGroups]
       \/ noise_gen \in [class : {"GenerateCDNQueries"},
                         num_denoising : 0..(2 * MaxBoxes),
                         num_queries : 1..MaxNumQueries,
                         denoising_groups : {1}]
    /\ noise_call = None

\* generator(gt_labels_list, gt_boxes_list) of the base generator
DnForward ==
    /\ noise_gen.class = "GenerateDNQueries"
    /\ \E gt_nums_per_image \in Batches :
         \E r \in {dn_forward(noise_gen, gt_nums_per_image)} :
           /\ noise_gen' = r.self
           /\ noise_call' = Some([before |-> noise_gen,
                                   gt_nums_per_image |-> gt_nums_per_image,
                                   result |-> r])

\* generator(gt_labels_list, gt_boxes_list) of the contrastive generator
CdnForwardQueries ==
    /\ noise_gen.class = "GenerateCDNQueries"
    /\ \E gt_nums_per_image \in Batches :
         \E r \in {cdn_forward_queries(noise_gen, gt_nums_per_image)} :
           /\ noise_gen' = r.self
           /\ noise_call' = Some([before |-> noise_gen,
                                   gt_nums_per_image |-> gt_nums_per_image,
                                   result |-> r])

BackboneIdle ==
    /\ net = None
    /\ net_calls = << >>

\* RelationDetrModel(config)
BackboneInit ==
    /\ \E config \in [use_timm_backbone : BOOLEAN, backbone_model_type : {"resnet", "swin"}] :
           net = Some(detr_model_init(config))
    /\ net_calls = << >>

\* model.freeze_backbone()
FreezeBackbone ==
    /\ Len(net_calls) < MaxCalls
    /\ \E r \in {freeze_backbone(Get(net))} :
           /\ net' = Some(r.self)
           /\ net_calls' = Append(net_calls, [method |-> "freeze_backbone",
                                              before |-> Get(net),
                                              after |-> r.self,
                                              raised |-> r.raised])

\* model.unfreeze_backbone()
UnfreezeBackbone ==
    /\ Len(net_calls) < MaxCalls
    /\ \E r \in {unfreeze_backbone(Get(net))} :
           /\ net' = Some(r.self)
           /\ net_calls' = Append(net_calls, [method |-> "unfreeze_backbone",
                                              before |-> Get(net),
                                              after |-> r.self,
                                              raised |-> r.raised])

RelationIdle ==
    /\ rel_dec = None
    /\ rel_call = None

\* RelationDetrDecoder(config) for the configurations it can be built from
RelationInit ==
    /\ \E config \in DecoderShapeConfigs :
           /\ decoder_shape_init(config).raised = "no"
           /\ rel_dec = Some(decoder_shape_init(config))
    /\ rel_call = None

\* decoder(inputs_embeds=target, self_attention_mask=..., ...) on batch_size
\* images and target_len queries, without a mask or with a 2-D one
RelationForward ==
    \E batch_size \in 1..2, target_len \in 1..MaxNumQueries, masked \in BOOLEAN :
        rel_call' = Some([batch_size |-> batch_size,
                          target_len |-> target_len,
                          result |-> decoder_shape_forward(
                                         Get(rel_dec),
                                         IF masked THEN <<target_len, target_len>> ELSE << >>,
                                         batch_size, target_len)])
        /\ UNCHANGED rel_dec

InitMask == MaskInit /\ AttnIdle /\ RatioIdle /\ ModelIdle /\ CdnIdle /\ HeadIdle /\ DecoderIdle /\ MapperIdle /\ BatchNormIdle /\ NoiseIdle /\ BackboneIdle /\ RelationIdle
NextMask == GenerateQueryMasks /\ UNCHANGED <<attnVars, ratioVars, modelVars, cdnVars, headVars, decVars, mapVars, bnVars, noiseVars, netVars, relVars>>
SpecMask == InitMask /\ [][NextMask]_vars

InitAttn == AttnInit /\ MaskIdle /\ RatioIdle /\ ModelIdle /\ CdnIdle /\ HeadIdle /\ DecoderIdle /\ MapperIdle /\ BatchNormIdle /\ NoiseIdle /\ BackboneIdle /\ RelationIdle
NextAttn ==
    \/ AttnConstruct /\ UNCHANGED <<maskVars, ratioVars, modelVars, cdnVars, headVars, decVars, mapVars, bnVars, noiseVars, netVars, relVars>>
    \/ AttnForward /\ UNCHANGED <<maskVars, ratioVars, modelVars, cdnVars, headVars, decVars, mapVars, bnVars, noiseVars, netVars, relVars>>
SpecAttn == InitAttn /\ [][NextAttn]_vars

InitRatio == RatioInit /\ MaskIdle /\ AttnIdle /\ ModelIdle /\ CdnIdle /\ HeadIdle /\ DecoderIdle /\ MapperIdle /\ BatchNormIdle /\ NoiseIdle /\ BackboneIdle /\ RelationIdle
NextRatio ==
    \/ GetValidRatios /\ UNCHANGED <<maskVars, attnVars, modelVars, cdnVars, headVars, decVars, mapVars, bnVars, noiseVars, netVars, relVars>>
    \/ MultiLevelMisc /\ UNCHANGED <<maskVars, attnVars, modelVars, cdnVars, headVars, decVars, mapVars, bnVars, noiseVars, netVars, relVars>>
SpecRatio == InitRatio /\ [][NextRatio]_vars

NextModel == ModelForward /\ UNCHANGED <<maskVars, attnVars, ratioVars, cdnVars, headVars, decVars, mapVars, bnVars, noiseVars, netVars, relVars>>

InitModel == ModelInit /\ MaskIdle /\ AttnIdle /\ RatioIdle /\ CdnIdle /\ HeadIdle /\ DecoderIdle /\ MapperIdle /\ BatchNormIdle /\ NoiseIdle /\ BackboneIdle /\ RelationIdle
SpecModel == InitModel /\ [][NextModel]_vars

InitTwoStage == TwoStageInit /\ MaskIdle /\ AttnIdle /\ RatioIdle /\ CdnIdle /\ HeadIdle /\ DecoderIdle /\ MapperIdle /\ BatchNormIdle /\ NoiseIdle /\ BackboneIdle /\ RelationIdle
SpecTwoStage == InitTwoStage /\ [][NextModel]_vars

InitCdn == CdnInit /\ MaskIdle /\ AttnIdle /\ RatioIdle /\ ModelIdle /\ HeadIdle /\ DecoderIdle /\ MapperIdle /\ BatchNormIdle /\ NoiseIdle /\ BackboneIdle /\ RelationIdle
NextCdn ==
    CdnForward /\ UNCHANGED <<maskVars, attnVars, ratioVars, modelVars, headVars, decVars, mapVars, bnVars, noiseVars, netVars, relVars>>
SpecCdn == InitCdn /\ [][NextCdn]_vars

InitDecoder == DecoderInit /\ MaskIdle /\ AttnIdle /\ RatioIdle /\ ModelIdle /\ CdnIdle /\ HeadIdle /\ MapperIdle /\ BatchNormIdle /\ NoiseIdle /\ BackboneIdle /\ RelationIdle
NextDecoder ==
    DecoderLayer /\ UNCHANGED <<maskVars, attnVars, ratioVars, modelVars, cdnVars, headVars, mapVars, bnVars, noiseVars, netVars, relVars>>
SpecDecoder == InitDecoder /\ [][NextDecoder]_vars

InitHead == HeadInit /\ MaskIdle /\ AttnIdle /\ RatioIdle /\ ModelIdle /\ CdnIdle /\ DecoderIdle /\ MapperIdle /\ BatchNormIdle /\ NoiseIdle /\ BackboneIdle /\ RelationIdle
NextHead ==
    DetectionForward /\ UNCHANGED <<maskVars, attnVars, ratioVars, modelVars, cdnVars, decVars, mapVars, bnVars, noiseVars, netVars, relVars>>
SpecHead == InitHead /\ [][NextHead]_vars

InitMapper == MapperInit /\ MaskIdle /\ AttnIdle /\ RatioIdle /\ ModelIdle /\ CdnIdle /\ HeadIdle /\ DecoderIdle /\ BatchNormIdle /\ NoiseIdle /\ BackboneIdle /\ RelationIdle
NextMapper ==
    MapperForward /\ UNCHANGED <<maskVars, attnVars, ratioVars, modelVars, cdnVars, headVars, decVars, bnVars, noiseVars, netVars, relVars>>
SpecMapper == InitMapper /\ [][NextMapper]_vars

InitBatchNorm == BatchNormInit /\ MaskIdle /\ AttnIdle /\ RatioIdle /\ ModelIdle /\ CdnIdle /\ HeadIdle /\ DecoderIdle /\ MapperIdle /\ NoiseIdle /\ BackboneIdle /\ RelationIdle
NextBatchNorm ==
    ReplaceBatchNorm /\ UNCHANGED <<maskVars, attnVars, ratioVars, modelVars, cdnVars, headVars, decVars, mapVars, noiseVars, netVars, relVars>>
SpecBatchNorm == InitBatchNorm /\ [][NextBatchNorm]_vars

InitNoise == NoiseInit /\ MaskIdle /\ AttnIdle /\ RatioIdle /\ ModelIdle /\ CdnIdle /\ HeadIdle /\ DecoderIdle /\ MapperIdle /\ BatchNormIdle /\ BackboneIdle /\ RelationIdle
NextNoise ==
    \/ DnForward /\ UNCHANGED <<maskVars, attnVars, ratioVars, modelVars, cdnVars, headVars, decVars, mapVars, bnVars, netVars, relVars>>
    \/ CdnForwardQueries /\ UNCHANGED <<maskVars, attnVars, ratioVars, modelVars, cdnVars, headVars, decVars, mapVars, bnVars, netVars, relVars>>
SpecNoise == InitNoise /\ [][NextNoise]_vars

InitBackbone == BackboneInit /\ MaskIdle /\ AttnIdle /\ RatioIdle /\ ModelIdle /\ CdnIdle /\ HeadIdle /\ DecoderIdle /\ MapperIdle /\ BatchNormIdle /\ NoiseIdle /\ RelationIdle
NextBackbone ==
    \/ FreezeBackbone /\ UNCHANGED <<maskVars, attnVars, ratioVars, modelVars, cdnVars, headVars, decVars, mapVars, bnVars, noiseVars, relVars>>
    \/ UnfreezeBackbone /\ UNCHANGED <<maskVars, attnVars, ratioVars, modelVars, cdnVars, headVars, decVars, mapVars, bnVars, noiseVars, relVars>>
SpecBackbone == InitBackbone /\ [][NextBackbone]_vars

InitRelation == RelationInit /\ MaskIdle /\ AttnIdle /\ RatioIdle /\ ModelIdle /\ CdnIdle /\ HeadIdle /\ DecoderIdle /\ MapperIdle /\ BatchNormIdle /\ NoiseIdle /\ BackboneIdle
NextRelation ==
    RelationForward /\ UNCHANGED <<maskVars, attnVars, ratioVars, modelVars, cdnVars, headVars, decVars, mapVars, bnVars, noiseVars, netVars>>
SpecRelation == InitRelation /\ [][NextRelation]_vars

\* C1: the mask returned by generate_query_masks is square of side G*M+Q and
\* entry (i,j) is True exactly when (a) i is an ordinary-query row and j a
\* denoising column, or (b) i and j are denoising queries of different groups.
C1_Blocked(i, j, G, M) ==
    \/ i >= G * M /\ j < G * M
    \/ /\ i < G * M
       /\ j < G * M
       /\ M > 0
       /\ (i \div M) # (j \div M)

C1_MaskLayout ==
    IsSome(mask_call) =>
        LET G == gen.denoising_groups
            M == Get(mask_call).max_gt
            r == Get(mask_call).result
            n == G * M + gen.num_queries
        IN  /\ ~r.error
            /\ r.size = n
            /\ DOMAIN r.mask = (0..(n - 1)) \X (0..(n - 1))
            /\ \A p \in DOMAIN r.mask : r.mask[p] = C1_Blocked(p[1], p[2], G, M)

C1_Witness ==
    /\ IsSome(mask_call)
    /\ gen.denoising_groups >= 3
    /\ Get(mask_call).max_gt >= 2
    /\ gen.num_queries >= 1
    /\ LET M == Get(mask_call).max_gt
           m == Get(mask_call).result.mask
       IN  /\ m[<<0, 2 * M>>]
           /\ ~m[<<M, M + 1>>]
           /\ m[<<3 * M, 0>>]

(***************************************************************************)
(* Claims about the kernel bridge and the deformable attention module      *)
(***************************************************************************)
IsForward == IsSome(attn_call) /\ Get(attn_call).op = "forward"
IsInit == IsSome(attn_call) /\ Get(attn_call).op = "init"

\* C2: forward produces its output through the pure-numeric path when custom
\* kernels are disabled, when the handle is None or when the kernel call raises;
\* the kernel's exception never reaches the caller, the handle is the same after
\* the call as before it, and the next forward call tries the kernel again.
C2_State ==
    IsForward =>
        LET c == Get(attn_call)
            self == modules[c.module]
        IN  /\ c.raised \in {"None", "ValueError"}
            /\ c.kernel_raised => c.raised = "None"
            /\ (c.raised = "None" /\ (self.disable_custom_kernels
                                       \/ c.handle_seen = "None"
                                       \/ c.kernel_raised)) => c.path = "pytorch"
            /\ c.handle_seen = MultiScaleDeformableAttention
            /\ c.raised = "None" =>
                   (c.tried_kernel <=> (~self.disable_custom_kernels
                                        /\ MultiScaleDeformableAttention # "None"))

C2_Step ==
    (IsForward /\ Get(attn_call).kernel_raised /\ attn_call' # attn_call) =>
        /\ MultiScaleDeformableAttention' = MultiScaleDeformableAttention
        /\ (Get(attn_call').op = "forward"
            /\ Get(attn_call').module = Get(attn_call).module
            /\ Get(attn_call').raised = "None") => Get(attn_call').tried_kernel

C2_KernelFallback == [](C2_State) /\ [][C2_Step]_vars

C2_Witness ==
    /\ IsForward
    /\ Get(attn_call).kernel_raised
    /\ Get(attn_call).path = "pytorch"
    /\ MultiScaleDeformableAttention = "ext"

\* C3 as stated: a failed just-in-time build is caught and warned about, the
\* construction completes, the handle is still None, and every forward call
\* after a failed build takes the pure-numeric path.
C3_Original ==
    /\ (IsInit /\ Get(attn_call).build_failed) =>
           /\ Get(attn_call).warned
           /\ MultiScaleDeformableAttention = "None"
           /\ Get(attn_call).config.d_model % Get(attn_call).config.num_heads = 0
                  => Get(attn_call).raised = "None"
    /\ (IsForward /\ Get(attn_call).raised = "None" /\ loads.failed > 0) =>
           Get(attn_call).path = "pytorch"

\* C3 (amended): a failed just-in-time build is caught and warned about, the
\* construction goes on as if no build had been attempted (it fails only on
\* d_model not divisible by num_heads), the handle is still None when the
\* construction returns, and forward calls take the pure-numeric path for as
\* long as no build has succeeded.
C3_BuildFailureCaught ==
    /\ (IsInit /\ Get(attn_call).build_failed) =>
           LET c == Get(attn_call)
               valid == c.config.d_model % c.config.num_heads = 0
           IN  /\ c.warned
               /\ MultiScaleDeformableAttention = "None"
               /\ c.raised = (IF valid THEN "None" ELSE "ValueError")
               /\ valid => (Len(modules) >= 1 /\ modules[Len(modules)] = c.module)
    /\ (IsForward /\ Get(attn_call).raised = "None" /\ loads.ok = 0) =>
           Get(attn_call).path = "pytorch"

C3_Witness ==
    /\ IsInit
    /\ Get(attn_call).build_failed
    /\ Get(attn_call).raised = "None"
    /\ Len(modules) = 2
    /\ loads.failed = 2

\* C4 as stated: load_cuda_kernels is invoked at most once over any sequence of
\* constructions in one process, whether the build succeeded or failed.
C4_Original == loads # None => loads.calls <= 1

\* C4 (amended): load_cuda_kernels is invoked only while the handle is None: at
\* most one invocation succeeds and none follows a successful one, while after a
\* failed build the handle stays None and every later construction with an
\* accelerator and a compiler available invokes it again.
C4_State ==
    loads # None =>
        /\ loads.ok <= 1
        /\ (loads.ok = 1) <=> (MultiScaleDeformableAttention = "ext")
        /\ loads.calls = loads.ok + loads.failed
        /\ (env.cuda /\ env.ninja /\ loads.ok = 0) => loads.calls = loads.inits
        /\ ~(env.cuda /\ env.ninja) => loads.calls = 0

C4_Step == MultiScaleDeformableAttention = "ext" => loads' = [loads EXCEPT !.inits = loads'.inits]

C4_BuildUntilSuccess == [](C4_State) /\ [][C4_Step]_vars

C4_Witness ==
    /\ loads # None
    /\ loads.failed = 1
    /\ loads.ok = 1
    /\ loads.inits = 2

\* C8: forward chooses the sampling-location rule by the last dimension d of
\* reference_points: d = 2 gives ref + offset / (width, height) of the level,
\* d = 4 gives ref_xy + offset / n_points * ref_wh * 0.5, and any other d raises
\* a ValueError before any attention output is produced.
C8_Rule2(c, l) ==
    LET loc == Get(c.locations)[l]
        ref == c.input.reference_points[l]
        off == c.input.sampling_offsets[l]
        height == c.input.spatial_shapes[l][1]
        width == c.input.spatial_shapes[l][2]
    IN  /\ RatEq(RatMul(RatSub(loc[1], ref[1]), <<width, 1>>), off[1])
        /\ RatEq(RatMul(RatSub(loc[2], ref[2]), <<height, 1>>), off[2])

C8_Rule4(c, l) ==
    LET loc == Get(c.locations)[l]
        ref == c.input.reference_points[l]
        off == c.input.sampling_offsets[l]
        n_points == modules[c.module].n_points
    IN  \A k \in 1..2 :
            RatEq(RatMul(RatSub(loc[k], ref[k]), <<2 * n_points, 1>>),
                  RatMul(off[k], ref[k + 2]))

C8_SamplingRule ==
    (IsForward /\ Get(attn_call).about # "spatial_shapes") =>
        LET c == Get(attn_call)
            d == Len(c.input.reference_points[1])
        IN  /\ d \notin {2, 4} =>
                /\ c.raised = "ValueError"
                /\ c.path = "none"
                /\ c.locations = None
            /\ d \in {2, 4} =>
                /\ c.raised = "None"
                /\ c.path \in {"pytorch", "kernel"}
                /\ DOMAIN Get(c.locations) = DOMAIN c.input.spatial_shapes
            /\ d = 2 => \A l \in DOMAIN c.input.spatial_shapes : C8_Rule2(c, l)
            /\ d = 4 => \A l \in DOMAIN c.input.spatial_shapes : C8_Rule4(c, l)

C8_Witness ==
    /\ IsForward
    /\ Len(Get(attn_call).input.reference_points[1]) = 5
    /\ Get(attn_call).raised = "ValueError"
    /\ Get(attn_call).about = "reference_points"
    /\ MultiScaleDeformableAttention = "ext"
    /\ ~modules[Get(attn_call).module].disable_custom_kernels


(***************************************************************************)
(* Claims about the valid ratios                                           *)
(***************************************************************************)
IsGetValidRatios == IsSome(ratio_call) /\ Get(ratio_call).op = "get_valid_ratios"
IsMisc == IsSome(ratio_call) /\ Get(ratio_call).op = "multi_level_misc"
NoPadding(mask) == \A p \in DOMAIN mask.m : ~mask.m[p]
AllValid(mask) == \A p \in DOMAIN mask.m : mask.m[p]
IsOne(x) == FIsFinite(x) /\ x[1] = x[2]

\* C9: get_valid_ratios gives (1.0, 1.0) for a fully valid mask (shape (1,4,4)
\* included), and (1.0, 1.0) through the special case, with no division by
\* zero, for a mask of height or width 0.
C9_ValidRatios ==
    /\ IsGetValidRatios =>
           LET c == Get(ratio_call)
           IN  /\ (c.mask.h > 0 /\ c.mask.w > 0 /\ NoPadding(c.mask)) =>
                      (IsOne(c.valid_ratio[1]) /\ IsOne(c.valid_ratio[2]))
               /\ (c.mask.h = 0 \/ c.mask.w = 0) => c.valid_ratio = <<FOne, FOne>>
    /\ IsMisc =>
           LET c == Get(ratio_call)
           IN  \A l \in DOMAIN c.masks :
                   AllValid(c.masks[l]) =>
                       (IsOne(c.valid_ratios[l][1]) /\ IsOne(c.valid_ratios[l][2]))

C9_Witness ==
    /\ IsGetValidRatios
    /\ Get(ratio_call).mask.h = 0
    /\ Get(ratio_call).mask.w = 4
    /\ Get(ratio_call).valid_ratio = <<FOne, FOne>>

InUnitInterval(x) == FIsFinite(x) /\ 0 < x[1] /\ x[1] <= x[2]
RefPointsFinite(level) ==
    /\ \A i \in DOMAIN level.ref_y : FIsFinite(level.ref_y[i])
    /\ \A j \in DOMAIN level.ref_x : FIsFinite(level.ref_x[j])

\* C10 as stated: for every pixel mask and every level, both components of the
\* valid ratio lie in (0, 1], so get_full_reference_points never divides by 0.
C10_Original ==
    IsMisc =>
        LET c == Get(ratio_call)
        IN  \A l \in DOMAIN c.masks :
                /\ InUnitInterval(c.valid_ratios[l][1])
                /\ InUnitInterval(c.valid_ratios[l][2])
                /\ RefPointsFinite(c.full_reference_points[l])

\* C10 (amended): for every pixel mask whose top-left pixel (0, 0) is a real
\* pixel and every level, both components of the valid ratio lie in (0, 1]
\* and get_full_reference_points never divides by 0; both components lie in
\* [0, 1] for every pixel mask, and a component is 0 exactly when the first
\* column (height ratio) or first row (width ratio) of the level's mask is
\* all padding, in which case the reference points of that level are not finite.
C10_RatioRange ==
    IsMisc =>
        LET c == Get(ratio_call)
        IN  \A l \in DOMAIN c.masks :
                LET rw == c.valid_ratios[l][1]
                    rh == c.valid_ratios[l][2]
                    mk == c.masks[l]
                IN  /\ FIsFinite(rw) /\ 0 <= rw[1] /\ rw[1] <= rw[2]
                    /\ FIsFinite(rh) /\ 0 <= rh[1] /\ rh[1] <= rh[2]
                    /\ c.pixel_mask.m[<<0, 0>>] =>
                           /\ InUnitInterval(rw)
                           /\ InUnitInterval(rh)
                           /\ RefPointsFinite(c.full_reference_points[l])
                    /\ FIsZero(rh) <=> (\A i \in 0..(mk.h - 1) : ~mk.m[<<i, 0>>])
                    /\ FIsZero(rw) <=> (\A j \in 0..(mk.w - 1) : ~mk.m[<<0, j>>])
                    /\ (FIsZero(rh) \/ FIsZero(rw)) =>
                           ~RefPointsFinite(c.full_reference_points[l])

C10_Witness ==
    /\ IsMisc
    /\ Get(ratio_call).pixel_mask.m[<<0, 0>>]
    /\ Get(ratio_call).pixel_mask.h = 4
    /\ ~Get(ratio_call).pixel_mask.m[<<3, 0>>]
    /\ Get(ratio_call).spatial_shapes[2] = <<2, 2>>
    /\ RatEq(Get(ratio_call).valid_ratios[2][2], <<1, 2>>)

(***************************************************************************)
(* Claims about RelationDetrModel.forward                                  *)
(***************************************************************************)
HybridMandatory ==
    {"hybrid_outputs_class", "hybrid_outputs_coord",
     "hybrid_enc_outputs_class", "hybrid_enc_outputs_coord"}
HybridOptional == {"hybrid_hidden_states", "hybrid_attentions", "hybrid_cross_attentions"}
HybridTail ==
    << <<"hybrid", "pred_logits">>, <<"hybrid", "pred_boxes">>,
       <<"hybrid", "enc_class">>, <<"hybrid", "enc_coord">> >>

\* C5: in evaluation mode every hybrid output is absent (None in the structured
\* result, no element of the tuple) and the decoder runs once; in training mode
\* with hybrid_queries > 0 the decoder runs twice and the four hybrid class and
\* coordinate outputs are present, whatever the output flags.
C5_HybridTrainingOnly ==
    IsSome(fwd_call) =>
        LET c == Get(fwd_call)
        IN  /\ ~model.training =>
                /\ c.decoder_passes = <<"decoder">>
                /\ c.hybrid_selection = Absent
                /\ c.return_dict =>
                       \A f \in HybridMandatory \cup HybridOptional : c.out[f] = Absent
                /\ ~c.return_dict => \A i \in DOMAIN c.out : c.out[i][1] # "hybrid"
            /\ (model.training /\ model.config.hybrid_queries > 0) =>
                /\ c.decoder_passes = <<"decoder", "hybrid">>
                /\ c.return_dict =>
                       /\ c.out.hybrid_outputs_class = <<"hybrid", "pred_logits">>
                       /\ c.out.hybrid_outputs_coord = <<"hybrid", "pred_boxes">>
                       /\ c.out.hybrid_enc_outputs_class = <<"hybrid", "enc_class">>
                       /\ c.out.hybrid_enc_outputs_coord = <<"hybrid", "enc_coord">>
                /\ ~c.return_dict =>
                       /\ Len(c.out) >= 9
                       /\ SubSeq(c.out, Len(c.out) - 3, Len(c.out)) = HybridTail

C5_Witness ==
    /\ IsSome(fwd_call)
    /\ model.training
    /\ model.config.hybrid_queries > 0
    /\ ~Get(fwd_call).return_dict
    /\ fwd_input.output_attentions
    /\ ~fwd_input.output_hidden_states
    /\ Len(Get(fwd_call).out) = 21

Masked(p) == ~fwd_input.mask_flatten[p] \/ ~ProposalValid(fwd_input.proposals[p])
Selected(c) == {c.selection.topk_proposals[i] : i \in DOMAIN c.selection.topk_proposals}
Score(c, p) == MaxLogitOf(c.selection.enc_outputs_class[p])

C7_Original ==
    IsSome(fwd_call) =>
        LET c == Get(fwd_call)
            positions == DOMAIN fwd_input.memory
        IN  \A p \in Selected(c) :
                Masked(p) => \A q \in positions : ~Masked(q) => q \in Selected(c)

\* C7 (amended): a masked position has its proposal logits set to +inf and its
\* memory zeroed, so every masked position carries the class logits of the
\* zero memory vector; the top-k selection orders positions by their maximum
\* class logit alone, masked or not, so a masked position is selected ahead of
\* an unmasked one exactly when that constant score ranks it there.
C7_MaskedPositions ==
    IsSome(fwd_call) =>
        LET c == Get(fwd_call)
            sel == c.selection
            positions == DOMAIN fwd_input.memory
        IN  /\ \A p \in positions :
                   /\ Masked(p) =>
                          /\ sel.enc_outputs_coord_logits[p] = InfLogit
                          /\ sel.output_memory[p] = 0
                          /\ sel.enc_outputs_class[p] = EncoderClassHead(model, 0)
                   /\ ~Masked(p) =>
                          /\ ~sel.enc_outputs_coord_logits[p].inf
                          /\ sel.output_memory[p] = fwd_input.memory[p]
            /\ \A p \in Selected(c) : \A q \in positions \ Selected(c) :
                   Score(c, p) >= Score(c, q)
            /\ \A p \in positions \ Selected(c) : \A q \in Selected(c) :
                   (Masked(p) /\ ~Masked(q)) => model.class_head[0] <= Score(c, q)

C7_Witness ==
    /\ IsSome(fwd_call)
    /\ Len(fwd_input.memory) = 2
    /\ Masked(1)
    /\ ~Masked(2)
    /\ ~fwd_input.mask_flatten[1]
    /\ Get(fwd_call).selection.topk_proposals = <<1>>
    /\ Get(fwd_call).selection.topk_coords_logits[1].inf

(***************************************************************************)
(* Claims about GenerateCDNQueries.forward                                 *)
(***************************************************************************)
\* C11: for num_denoising N and batch maximum m, the group count the forward
\* call uses is max(1, N // m) when m >= 1 and 1 when m = 0; it is the count
\* the call returns and builds the queries and the mask with; when m = 0 the
\* call completes and produces zero denoising queries.
C11_GroupCount ==
    IsSome(cdn_call) =>
        LET c == Get(cdn_call)
            N == c.before.num_denoising
            m == MaxOf(c.gt_nums_per_image)
            groups == IF m = 0 THEN 1 ELSE Max(1, N \div m)
        IN  /\ cdn.denoising_groups = groups
            /\ c.output.denoising_groups = groups
            /\ groups = Max(1, (N * m) \div Max(m * m, 1))
            /\ \A b \in DOMAIN c.gt_nums_per_image :
                   c.output.noised_label_query[b].length = 2 * m * groups
            /\ c.output.denoise_attn_mask.size = 2 * m * groups + cdn.num_queries
            /\ m = 0 =>
                   /\ ~c.raised
                   /\ \A b \in DOMAIN c.gt_nums_per_image :
                          /\ c.output.noised_label_query[b].length = 0
                          /\ c.output.noised_box_query[b].length = 0

C11_Witness ==
    /\ IsSome(cdn_call)
    /\ Get(cdn_call).before.num_denoising = 3
    /\ Get(cdn_call).gt_nums_per_image = <<2, 1>>
    /\ Get(cdn_call).before.denoising_groups = 3
    /\ cdn.denoising_groups = 1
    /\ Get(cdn_call).output.noised_label_query[2].filled = {0, 2}

(***************************************************************************)
(* Claims about RelationDetrDecoder.forward                                *)
(***************************************************************************)
\* B(-1) is the initial reference points, B(k) the boxes predicted by layer k
B(k) == IF k < 0 THEN InitialBoxes ELSE PredictedBoxes(k)

\* C19: with skip_relation = False, layer 0 receives as self-attention bias
\* only the supplied mask (or nothing), every layer k >= 1 receives the
\* relation bias computed between source boxes B(k-2) and target boxes B(k-1);
\* an iteration computes the bias for the next layer from the source boxes it
\* started with and only then advances them to the boxes it predicted; the
\* source boxes are never the refined reference points.
C19_RelationSchedule ==
    (IsSome(dec) /\ ~Get(dec).skip_relation) =>
        LET d == Get(dec)
            st == d.st
            n == Len(st.layers)
        IN  /\ n >= 1 =>
                LET a == st.layers[1].self_attention
                IN  /\ a.src = NoBoxes /\ a.tgt = NoBoxes
                    /\ a.added = (d.self_attention_mask.dtype = "bool")
                    /\ a.neg_inf = IF a.added
                                   THEN AllPairs(d.length) \ d.self_attention_mask.keep
                                   ELSE {}
            /\ \A k \in 1..(n - 1) :
                   LET a == st.layers[k + 1].self_attention
                   IN  /\ a.added
                       /\ a.src = B(k - 2)
                       /\ a.tgt = B(k - 1)
            /\ st.src_boxes = B(st.idx - 1)
            /\ st.src_boxes.kind # "refined"
            /\ (st.idx > 0 /\ ~st.raised) =>
                   /\ d.prev.idx = st.idx - 1
                   /\ st.position_relation.dtype = "float"
                   /\ st.position_relation.src = d.prev.src_boxes
                   /\ st.position_relation.tgt = st.src_boxes
                   /\ st.reference_points = RefinedBoxes(st.idx - 1)

C19_Witness ==
    /\ IsSome(dec)
    /\ ~Get(dec).skip_relation
    /\ Get(dec).self_attention_mask.dtype = "bool"
    /\ Get(dec).st.idx = 3
    /\ Get(dec).st.layers[3].self_attention.src = PredictedBoxes(0)
    /\ Get(dec).st.layers[3].self_attention.tgt = PredictedBoxes(1)
    /\ Get(dec).st.layers[2].self_attention.src = InitialBoxes

(***************************************************************************)
(* Claims about RelationDetrForObjectDetection.forward                     *)
(***************************************************************************)
Completed == IsSome(det_call) /\ Get(det_call).raised = "no"
Training == detector.training
WithLabels == IsSome(det_input.labels)
PrimaryCall == Get(det_call).model.decoder_calls[1]
IsNoised(query) == query[1] = "noised_label_query"

\* C12: when a training forward with denoising hands metadata to the loss
\* function, dn_num_split = [dn_num_group * max_gt_num_per_image, num_queries],
\* and its first element is the second dimension of noised_label_query, the
\* number of denoising queries at the front of the decoder input and the size
\* of the denoising block of the isolation mask.
C12_DenoisingSplit ==
    (Completed /\ Get(det_call).generator_invoked) =>
        LET c == Get(det_call)
            meta == Get(c.loss_calls[1].denoising_meta_values)
            d == meta.dn_num_split[1]
            inputs == PrimaryCall.inputs_embeds
            mask == c.noised_embeddings.denoise_attn_mask
        IN  /\ IsSome(c.loss_calls[1].denoising_meta_values)
            /\ meta.dn_num_split = <<meta.dn_num_group * meta.max_gt_num_per_image,
                                     detector.config.num_queries>>
            /\ \A b \in DOMAIN c.noised_embeddings.noised_label_query :
                   c.noised_embeddings.noised_label_query[b].length = d
            /\ Cardinality({i \in DOMAIN inputs : IsNoised(inputs[i])}) = d
            /\ \A i \in DOMAIN inputs : IsNoised(inputs[i]) <=> i <= d
            /\ mask.size = d + detector.config.num_queries
            /\ \A p \in DOMAIN mask.mask :
                   p[1] >= d => (mask.mask[p] <=> p[2] < d)

C12_Witness ==
    /\ Completed
    /\ Get(det_call).generator_invoked
    /\ det_input.labels = Some(<<MaxBoxes, 0>>)
    /\ Get(Get(det_call).loss_calls[1].denoising_meta_values).dn_num_split[1] = 2 * MaxBoxes
    /\ Len(PrimaryCall.inputs_embeds) = 2 * MaxBoxes + 2

\* C13: the denoising generator is invoked exactly when the model is in
\* training mode, config.num_denoising > 0 and labels are supplied; otherwise
\* the top-level model receives no denoising label or box queries and no
\* self-attention mask, every loss call receives denoising_meta_values = None
\* and the decoder processes only the min(num_queries, positions) ordinary
\* queries.
C13_DenoisingGuard ==
    IsSome(det_call) =>
        LET c == Get(det_call)
        IN  /\ c.generator_invoked <=>
                   (Training /\ detector.config.num_denoising > 0 /\ WithLabels)
            /\ ~c.generator_invoked =>
                   /\ c.raised = "no"
                   /\ c.noised_embeddings = Absent
                   /\ c.model_input.noised_label_query = Absent
                   /\ c.model_input.noised_box_query = Absent
                   /\ c.model_input.self_attention_mask = NoMask
                   /\ \A i \in DOMAIN c.loss_calls :
                          c.loss_calls[i].denoising_meta_values = None
                   /\ Len(PrimaryCall.inputs_embeds)
                          = Min(detector.config.num_queries, Len(det_input.scene.memory))
                   /\ \A i \in DOMAIN PrimaryCall.inputs_embeds :
                          ~IsNoised(PrimaryCall.inputs_embeds[i])
                   /\ \A k \in DOMAIN PrimaryCall.run.layers :
                          PrimaryCall.run.layers[k].self_attention.neg_inf = {}

C13_Witness ==
    /\ Completed
    /\ ~Training
    /\ detector.config.num_denoising > 0
    /\ WithLabels
    /\ ~Get(det_call).generator_invoked
    /\ Len(Get(det_call).loss_calls) = 1

\* C14: in tuple mode the tuple of RelationDetrModel.forward has (initial
\* reference points, class stack, box stack, first-stage classes, first-stage
\* boxes) at indices 0..4 and, in training mode, the four hybrid outputs as
\* its last four elements, for every combination of the output flags; these
\* are the tensors the detection head reads at outputs[1..4], outputs[-4..-1].
C14_TupleLayout ==
    (Completed /\ ~Get(det_call).return_dict) =>
        LET c == Get(det_call)
            o == c.model.out
        IN  /\ Len(o) >= 5
            /\ SubSeq(o, 1, 5) = << <<"model", "init_reference_points">>,
                                    <<"decoder", "pred_logits">>,
                                    <<"decoder", "pred_boxes">>,
                                    <<"model", "topk_class">>,
                                    <<"model", "topk_coords">> >>
            /\ Training => SubSeq(o, Len(o) - 3, Len(o)) = HybridTail
            /\ c.reads.outputs_class = <<"decoder", "pred_logits">>
            /\ c.reads.outputs_coord = <<"decoder", "pred_boxes">>
            /\ WithLabels =>
                   /\ c.reads.enc_topk_logits = <<"model", "topk_class">>
                   /\ c.reads.enc_topk_coords = <<"model", "topk_coords">>
            /\ (WithLabels /\ Training) =>
                   /\ c.reads.hybrid_outputs_class = <<"hybrid", "pred_logits">>
                   /\ c.reads.hybrid_outputs_coord = <<"hybrid", "pred_boxes">>
                   /\ c.reads.hybrid_enc_topk_logits = <<"hybrid", "enc_class">>
                   /\ c.reads.hybrid_enc_topk_coords = <<"hybrid", "enc_coord">>

C14_Witness ==
    /\ Completed
    /\ ~Get(det_call).return_dict
    /\ Training
    /\ WithLabels
    /\ det_input.output_attentions
    /\ det_input.output_hidden_states
    /\ Len(Get(det_call).model.out) = 24
    /\ Get(det_call).reads.hybrid_enc_topk_coords = <<"hybrid", "enc_coord">>

\* C15: the tuple returned when structured output is disabled contains exactly
\* the fields that are present in the structured result of the same call, in
\* the same order, and no others.
C15_TupleIsStructured ==
    (Completed /\ ~Get(det_call).return_dict) =>
        LET structured == detection_forward(detector,
                                            [det_input EXCEPT !.return_dict = Some(TRUE)])
        IN  structured.raised = "no" => Get(det_call).out = to_tuple(structured.out)

\* C16: loss and loss_dict are present exactly when labels are supplied; the
\* hybrid loss is added to the loss and merged into loss_dict under keys
\* suffixed "_hybrid" exactly when labels are supplied in training mode; in
\* evaluation mode with labels the loss is the primary loss alone and no key
\* is suffixed; merging leaves the value of every primary key as it was.
Suffixed(k) == k[Len(k)] = "_hybrid"
C16_HybridLoss ==
    Completed =>
        LET c == Get(det_call)
            present(name) == IF c.return_dict THEN c.out[name] # Absent
                             ELSE \E i \in DOMAIN c.out : c.out[i] = <<"head", name>>
            meta == IF c.generator_invoked THEN c.loss_calls[1].denoising_meta_values
                    ELSE None
            primary == loss_function("primary", detector.config, meta).loss_dict
        IN  /\ present("loss") <=> WithLabels
            /\ present("loss_dict") <=> WithLabels
            /\ (c.loss # {}) <=> WithLabels
            /\ ("hybrid" \in c.loss) <=> (WithLabels /\ Training)
            /\ Len(c.loss_calls) = IF ~WithLabels THEN 0 ELSE IF Training THEN 2 ELSE 1
            /\ WithLabels =>
                   /\ "primary" \in c.loss
                   /\ (\E k \in DOMAIN c.loss_dict : Suffixed(k)) <=> Training
                   /\ \A k \in DOMAIN c.loss_dict :
                          Suffixed(k) <=> c.loss_dict[k].branch = "hybrid"
                   /\ \A k \in DOMAIN primary : c.loss_dict[k] = primary[k]
                   /\ Training =>
                          \A k \in LossTerms :
                              c.loss_dict[Append(k, "_hybrid")]
                                  = [branch |-> "hybrid", term |-> k]
            /\ (WithLabels /\ ~Training) =>
                   /\ c.loss = {"primary"}
                   /\ c.loss_dict = primary

C16_Witness ==
    /\ Completed
    /\ WithLabels
    /\ Training
    /\ Get(det_call).generator_invoked
    /\ Get(det_call).loss = {"primary", "hybrid"}
    /\ Cardinality(DOMAIN Get(det_call).loss_dict) = 9

C17_Step ==
    IsSome(det_call') =>
        /\ MultiScaleDeformableAttention' = MultiScaleDeformableAttention
        /\ detector' =
               [detector EXCEPT !.denoising_generator.denoising_groups =
                   IF Get(det_call').generator_invoked
                   THEN cdn_groups(detector.config.num_denoising,
                                   MaxOf(Get(det_input.labels)))
                   ELSE @]
C18_IsolationEveryLayer ==
    (Completed /\ Get(det_call).generator_invoked) =>
        LET c == Get(det_call)
            mask == c.noised_embeddings.denoise_attn_mask
            run == PrimaryCall.run
        IN  /\ Len(run.layers) = detector.config.decoder_layers
            /\ Len(PrimaryCall.inputs_embeds) = mask.size
            /\ \A k \in DOMAIN run.layers :
                   LET a == run.layers[k].self_attention
                   IN  /\ a.added
                       /\ \A p \in DOMAIN mask.mask : (p \in a.neg_inf) <=> mask.mask[p]
                       /\ a.neg_inf \subseteq DOMAIN mask.mask
                       /\ k = 1 => a.src = NoBoxes /\ a.tgt = NoBoxes
                       /\ k > 1 => a.src.kind \in {"init", "pred"} /\ a.tgt.kind = "pred"

C18_Witness ==
    /\ Completed
    /\ Get(det_call).generator_invoked
    /\ Len(PrimaryCall.run.layers) = MaxLayers
    /\ <<0, 2>> \in PrimaryCall.run.layers[MaxLayers].self_attention.neg_inf
    /\ <<0, 1>> \notin PrimaryCall.run.layers[MaxLayers].self_attention.neg_inf
    /\ <<0, 0>> \notin PrimaryCall.run.layers[1].self_attention.neg_inf

\* C20: the hybrid decoder pass of a training forward is given
\* self_attention_mask = None and skip_relation = True: none of its layers
\* receives a bias or a mask, the relation embedding is never evaluated in
\* it, its queries are the hybrid queries alone, and it reads the encoder
\* memory the primary pass reads.
C20_HybridPass ==
    (Completed /\ Training) =>
        LET c == Get(det_call)
            calls == c.model.decoder_calls
            h == calls[2]
        IN  /\ Len(calls) = 2
            /\ calls[1].pass = "decoder" /\ ~calls[1].skip_relation
            /\ h.pass = "hybrid"
            /\ h.self_attention_mask = NoMask
            /\ h.skip_relation
            /\ Len(h.run.layers) = detector.config.decoder_layers
            /\ \A k \in DOMAIN h.run.layers :
                   /\ ~h.run.layers[k].self_attention.added
                   /\ h.run.layers[k].self_attention.neg_inf = {}
                   /\ ~h.run.layers[k].relation_evaluated
            /\ h.run.position_relation = NoMask
            /\ \A i \in DOMAIN h.inputs_embeds : h.inputs_embeds[i][1] = "hybrid_target_embed"
            /\ h.encoder_hidden_states = calls[1].encoder_hidden_states

C20_Witness ==
    /\ Completed
    /\ Training
    /\ Get(det_call).generator_invoked
    /\ PrimaryCall.self_attention_mask.dtype = "bool"
    /\ PrimaryCall.run.layers[MaxLayers].self_attention.added
    /\ Len(Get(det_call).model.decoder_calls[2].run.layers) = MaxLayers
    /\ Len(Get(det_call).model.decoder_calls[2].inputs_embeds) = 1

(***************************************************************************)
(* Claims about RelationDetrChannelMapper                                  *)
(***************************************************************************)
\* The j-th returned map (from 0)
MapperOutput(j) == Get(map_call).result.outs[j + 1]
MapperFull ==
    /\ IsSome(map_call)
    /\ Get(map_call).inputs_kind \in {"dict", "list"}
    /\ Get(map_call).inputs_len = Len(mapper.in_channels)
    /\ mapper.num_outs >= Len(mapper.in_channels)
MapperPartial ==
    /\ IsSome(map_call)
    /\ Get(map_call).inputs_kind \in {"dict", "list"}
    /\ Get(map_call).inputs_len < Len(mapper.in_channels)
    /\ Get(map_call).result.raised = "no"
MapperTail ==
    /\ MapperPartial =>
           \A i \in 0..(Get(map_call).inputs_len - 1) :
               MapperOutput(i) =
                   conv_apply(Len(mapper.in_channels) - Get(map_call).inputs_len + i, input_map(i))
    /\ (IsSome(map_call) /\ Get(map_call).inputs_kind \in {"dict", "list"}
            /\ Get(map_call).inputs_len > Len(mapper.in_channels)) =>
           Get(map_call).result.raised = "AssertionError"

\* C21 as stated: with n inputs and num_outs >= n the mapper returns num_outs
\* maps, output i < n is convolution i of input i and every output j >= n is
\* convolution j of output j - 1; with k < n inputs, input i goes through
\* convolution n - k + i; more than n inputs fail an assertion.
C21_Original ==
    /\ MapperFull =>
           LET n == Len(mapper.in_channels)
           IN  /\ Get(map_call).result.raised = "no"
               /\ Len(Get(map_call).result.outs) = mapper.num_outs
               /\ \A i \in 0..(n - 1) : MapperOutput(i) = conv_apply(i, input_map(i))
               /\ \A j \in n..(mapper.num_outs - 1) :
                      MapperOutput(j) = conv_apply(j, MapperOutput(j - 1))
    /\ MapperTail

\* C21 (amended): as stated, except that the first additional level, output
\* n, is convolution n applied to the last input map (input n - 1), not to
\* output n - 1; every later output j > n is convolution j of output j - 1.
C21_ExtraLevels ==
    /\ MapperFull =>
           LET n == Len(mapper.in_channels)
           IN  /\ Get(map_call).result.raised = "no"
               /\ Len(Get(map_call).result.outs) = mapper.num_outs
               /\ \A i \in 0..(n - 1) : MapperOutput(i) = conv_apply(i, input_map(i))
               /\ mapper.num_outs > n => MapperOutput(n) = conv_apply(n, input_map(n - 1))
               /\ \A j \in (n + 1)..(mapper.num_outs - 1) :
                      MapperOutput(j) = conv_apply(j, MapperOutput(j - 1))
    /\ MapperTail

C21_Witness ==
    /\ MapperFull
    /\ Len(mapper.in_channels) = 2
    /\ mapper.num_outs = 4
    /\ MapperOutput(2) = [input |-> 1, convs |-> <<2>>]
    /\ MapperOutput(3) = [input |-> 1, convs |-> <<2, 3>>]

(***************************************************************************)
(* Claims about replace_batch_norm                                         *)
(***************************************************************************)
\* The paths of all modules of a tree, the root (<< >>) included
RECURSIVE ModulePaths(_)
ModulePaths(module) ==
    {<< >>} \cup UNION { { <<i>> \o p : p \in ModulePaths(module.children[i]) } :
                           i \in DOMAIN module.children }
RECURSIVE ModuleAt(_, _)
ModuleAt(module, path) ==
    IF path = << >> THEN module ELSE ModuleAt(module.children[Head(path)], Tail(path))

\* C22: after replace_batch_norm(model) returns, no proper descendant of
\* model is a BatchNorm2d; each one was replaced where it stood by a new
\* RelationDetrFrozenBatchNorm2d of the same channel count whose four
\* statistics are copied from it, or left at (1, 0, 0, 1) if it was on the
\* meta device; every other module is the same object as before.
C22_BatchNormReplaced ==
    IsSome(bn_call) =>
        LET before == Get(bn_call).before
            after == Get(bn_call).after
        IN  /\ ModulePaths(after) = ModulePaths(before)
            /\ \A p \in ModulePaths(before) :
                   LET old == ModuleAt(before, p)
                       new == ModuleAt(after, p)
                   IN  IF p # << >> /\ old.class = "BatchNorm2d"
                       THEN /\ new.class = "RelationDetrFrozenBatchNorm2d"
                            /\ new.obj # old.obj
                            /\ new.num_features = old.num_features
                            /\ new.stats = IF old.device = "meta"
                                           THEN [weight |-> 1, bias |-> 0,
                                                 running_mean |-> 0, running_var |-> 1]
                                           ELSE old.stats
                       ELSE /\ new.obj = old.obj
                            /\ new.class = old.class
                            /\ new.stats = old.stats
            /\ \A p \in ModulePaths(after) \ {<< >>} : ModuleAt(after, p).class # "BatchNorm2d"

C22_Witness ==
    /\ IsSome(bn_call)
    /\ \E p \in ModulePaths(Get(bn_call).before) :
           /\ Len(p) = 2
           /\ ModuleAt(Get(bn_call).before, p).class = "BatchNorm2d"
           /\ ModuleAt(Get(bn_call).before, p).device = "meta"
           /\ ModuleAt(Get(bn_call).after, p).class = "RelationDetrFrozenBatchNorm2d"
    /\ \E p \in ModulePaths(Get(bn_call).before) :
           /\ Len(p) = 1
           /\ ModuleAt(Get(bn_call).before, p).device = "cpu"
           /\ ModuleAt(Get(bn_call).before, p).class = "BatchNorm2d"
           /\ ModuleAt(Get(bn_call).after, p).stats = ModuleAt(Get(bn_call).before, p).stats

(***************************************************************************)
(* Claims about the scatter of the noised queries                          *)
(***************************************************************************)
NoiseResult == Get(noise_call).result
NoiseNums == Get(noise_call).gt_nums_per_image
NoiseMaxGt == MaxOf(NoiseNums)
\* The slots of the buffers of the last call
NoiseSlots == (0..(Len(NoiseNums) - 1)) \X (0..(NoiseResult.times * NoiseMaxGt - 1))

\* C23: in both generators the noised embedding of ground truth j of image
\* b in replication r (r < R, R = groups, or 2 * groups in the contrastive
\* generator) is written to slot (b, r * m + j), m being the largest
\* ground-truth count of the batch; no two embeddings share a slot, every
\* slot index is below R * m, and the slots (b, r * m + j) with
\* n_b <= j < m stay zero in both buffers.
C23_ScatterLayout ==
    IsSome(noise_call) =>
        LET q == NoiseResult.queries
            R == NoiseResult.times
            m == NoiseMaxGt
        IN  /\ R = IF noise_gen.class = "GenerateCDNQueries"
                   THEN 2 * noise_gen.denoising_groups
                   ELSE noise_gen.denoising_groups
            /\ q.raised = "no"
            /\ DOMAIN q.noised_label_queries = NoiseSlots
            /\ DOMAIN q.noised_box_queries = NoiseSlots
            /\ \A e \in DOMAIN q.valid_index_per_group : q.valid_index_per_group[e] < R * m
            /\ \A e, f \in DOMAIN q.valid_index_per_group :
                   (q.batch_idx_per_group[e] = q.batch_idx_per_group[f]
                        /\ q.valid_index_per_group[e] = q.valid_index_per_group[f]) => e = f
            /\ \A b \in 0..(Len(NoiseNums) - 1), r \in 0..(R - 1), j \in 0..(m - 1) :
                   LET label == q.noised_label_queries[<<b, r * m + j>>]
                       box == q.noised_box_queries[<<b, r * m + j>>]
                   IN  IF j < NoiseNums[b + 1]
                       THEN /\ IsSome(label)
                            /\ IsSome(box)
                            /\ \A x \in {Get(label), Get(box)} :
                                   x.image = b /\ x.gt = j /\ x.replication = r
                       ELSE label = None /\ box = None

C23_Witness ==
    /\ IsSome(noise_call)
    /\ noise_gen.class = "GenerateDNQueries"
    /\ NoiseNums = <<1, 2>>
    /\ NoiseResult.times = 2
    /\ NoiseResult.queries.noised_label_queries[<<0, 1>>] = None
    /\ IsSome(NoiseResult.queries.noised_label_queries[<<0, 2>>])
    /\ Get(NoiseResult.queries.noised_box_queries[<<1, 3>>]).gt = 1

\* C24: in the contrastive generator the entries apply_box_noise treats as
\* negatives are the ones scattered into the second half of each group's
\* block: with m the largest ground-truth count, slots [2gm, 2gm + m) hold
\* the positives and [2gm + m, 2(g+1)m) the negatives of group g; the mask,
\* built for blocks of 2m, lets the positives and negatives of one group
\* see each other and blocks queries of different groups.
C24_NegativeHalf ==
    (IsSome(noise_call) /\ noise_gen.class = "GenerateCDNQueries") =>
        LET q == NoiseResult.queries
            G == noise_gen.denoising_groups
            m == NoiseMaxGt
            mask == NoiseResult.denoise_attn_mask.mask
        IN  /\ \A e \in DOMAIN q.valid_index_per_group :
                   LET slot == q.valid_index_per_group[e]
                       g == slot \div (2 * m)
                   IN  /\ g < G
                       /\ (e - 1) \in q.negative_idx <=> slot \in (2 * g * m + m)..(2 * (g + 1) * m - 1)
                       /\ (e - 1) \notin q.negative_idx <=> slot \in (2 * g * m)..(2 * g * m + m - 1)
            /\ \A p \in DOMAIN q.noised_box_queries :
                   IsSome(q.noised_box_queries[p]) =>
                       (Get(q.noised_box_queries[p]).shifted <=> (p[2] % (2 * m)) >= m)
            /\ \A s, t \in 0..(2 * G * m - 1) :
                   mask[<<s, t>>] = ((s \div (2 * m)) # (t \div (2 * m)))

C24_Witness ==
    /\ IsSome(noise_call)
    /\ noise_gen.class = "GenerateCDNQueries"
    /\ noise_gen.denoising_groups = 2
    /\ NoiseNums = <<2, 1>>
    /\ Get(NoiseResult.queries.noised_box_queries[<<0, 7>>]).shifted
    /\ ~Get(NoiseResult.queries.noised_box_queries[<<0, 5>>]).shifted
    /\ ~NoiseResult.denoise_attn_mask.mask[<<4, 7>>]
    /\ NoiseResult.denoise_attn_mask.mask[<<3, 4>>]

(***************************************************************************)
(* Claims about freeze_backbone / unfreeze_backbone                        *)
(***************************************************************************)
\* The requires_grad flags of the backbone's parameters
BackboneGrads(self) == {self.backbone.model[n] : n \in DOMAIN self.backbone.model}

\* C25 as stated: freeze_backbone completes without error and leaves every
\* backbone parameter with gradients disabled, unfreeze_backbone leaves
\* every one enabled, neither changes a parameter outside the backbone, and
\* after freeze followed by unfreeze every backbone parameter is trainable.
C25_FreezeUnfreeze ==
    \A k \in DOMAIN net_calls :
        /\ net_calls[k].raised = "no"
        /\ net_calls[k].after.others = net_calls[k].before.others
        /\ net_calls[k].method = "freeze_backbone" => BackboneGrads(net_calls[k].after) = {FALSE}
        /\ net_calls[k].method = "unfreeze_backbone" => BackboneGrads(net_calls[k].after) = {TRUE}

(***************************************************************************)
(* Claims about the denoising queries on their way through the head        *)
(***************************************************************************)
\* C26 as stated: whenever denoising queries are supplied, the side of the
\* mask handed to the model (denoising queries + num_queries) equals the
\* length of the decoder's query sequence (denoising queries + the
\* min(num_queries, positions) selected queries) for every feature-map
\* size, so the attention module's 2-D mask size check never raises.
C26_MaskMatchesQueries ==
    (IsSome(det_call) /\ Get(det_call).generator_invoked /\ Get(det_call).model_called) =>
        LET model_input == Get(det_call).model_input
            denoising == model_input.noised_label_query[1].length
        IN  /\ model_input.self_attention_mask.size
                   = denoising + Min(detector.config.num_queries, Len(det_input.scene.memory))
            /\ Get(det_call).raised # "ValueError"

\* C30 as stated: for every combination of config.use_return_dict and the
\* call-time return_dict, a training forward with denoising reads the five
\* generator outputs without raising.
C30_GeneratorOutputsRead ==
    (IsSome(det_call) /\ Get(det_call).generator_invoked) =>
        /\ Get(det_call).raised # "AttributeError"
        /\ Get(det_call).raised = "no" =>
               /\ Get(det_call).noised_embeddings.noised_label_query
                      = Get(det_call).model_input.noised_label_query
               /\ Get(det_call).noised_embeddings.noised_box_query
                      = Get(det_call).model_input.noised_box_query

(***************************************************************************)
(* Claims about the shape of the relation bias                             *)
(***************************************************************************)
\* C28 as stated: for every decoder configuration that can be constructed,
\* the relation bias handed to layers k >= 1 has shape (batch * H, Q, Q)
\* with H = config.decoder_attention_heads, so the attention module's 3-D
\* mask shape check never raises for decoders with two or more layers.
C28_RelationShape ==
    IsSome(rel_call) =>
        LET call == Get(rel_call)
            H == Get(rel_dec).config.decoder_attention_heads
        IN  /\ call.result.raised = "no"
            /\ \A k \in 2..Len(call.result.masks) :
                   call.result.masks[k] = <<call.batch_size * H, call.target_len, call.target_len>>

(***************************************************************************)
(* Claims about rows of the self-attention mask and about repeated calls   *)
(* of the contrastive generator                                            *)
(***************************************************************************)
\* The generator's mask inverted as the detection head inverts it
C27_Inverted ==
    BoolMask(Get(mask_call).result.size,
             [p \in DOMAIN Get(mask_call).result.mask |-> ~Get(mask_call).result.mask[p]])
\* What the first layer, and every later layer, adds to the attention logits
C27_FirstLayer == mha_forward(C27_Inverted, Get(mask_call).result.size)
C27_LaterLayer ==
    mha_forward(masked_fill_neg_inf(
                    position_relation_embedding(NoBoxes, NoBoxes, Get(mask_call).result.size),
                    C27_Inverted),
                Get(mask_call).result.size)

\* C27: for all G >= 1, M >= 0 and Q >= 0 no row of the mask returned by
\* generate_query_masks is entirely True and entry (i, i) is False for
\* every i; hence, after the inversion, no row of the self-attention
\* logits of any decoder layer is all -inf.
C27_NoEmptyRow ==
    IsSome(mask_call) =>
        LET r == Get(mask_call).result
            rows == 0..(r.size - 1)
        IN  /\ \A i \in rows : ~r.mask[<<i, i>>]
            /\ \A i \in rows : \E j \in rows : ~r.mask[<<i, j>>]
            /\ \A layer \in {C27_FirstLayer, C27_LaterLayer} :
                   /\ ~layer.raised
                   /\ layer.added
                   /\ \A i \in rows : <<i, i>> \notin layer.neg_inf
                   /\ \A i \in rows : \E j \in rows : <<i, j>> \notin layer.neg_inf

C27_Witness ==
    /\ IsSome(mask_call)
    /\ gen.denoising_groups = 2
    /\ gen.num_queries = 1
    /\ Get(mask_call).max_gt = 2
    /\ Get(mask_call).result.mask[<<4, 3>>]
    /\ <<4, 3>> \in C27_LaterLayer.neg_inf
    /\ <<4, 4>> \notin C27_LaterLayer.neg_inf

\* C29: over any sequence of GenerateCDNQueries.forward calls on one
\* instance, the group count used for the replication, for the indices of
\* apply_box_noise, for the scatter offsets, for the mask and in the
\* returned record is the one computed from that call's own batch: the
\* call returns what a fresh instance returns on the same batch, whatever
\* group count an earlier call left behind.
C29_GroupsPerCall ==
    (IsSome(noise_call) /\ noise_gen.class = "GenerateCDNQueries") =>
        LET call == Get(noise_call)
            m == MaxOf(call.gt_nums_per_image)
            groups == cdn_groups(call.before.num_denoising, m)
            fresh == cdn_forward_queries([call.before EXCEPT !.denoising_groups = 1],
                                         call.gt_nums_per_image)
        IN  /\ call.result = fresh
            /\ call.result.denoising_groups = groups
            /\ call.result.times = 2 * groups
            /\ Len(call.result.queries.valid_index_per_group)
                   = 2 * groups * Len(cat_gt(call.gt_nums_per_image, 1))
            /\ call.result.queries.negative_idx
                   = cdn_negative_idx([call.before EXCEPT !.denoising_groups = groups],
                                      Len(call.result.queries.valid_index_per_group))
            /\ call.result.denoise_attn_mask.size = 2 * groups * m + call.before.num_queries
            /\ \A s, t \in 0..(2 * groups * m - 1) :
                   call.result.denoise_attn_mask.mask[<<s, t>>]
                       = ((s \div (2 * m)) # (t \div (2 * m)))

C29_Witness ==
    /\ IsSome(noise_call)
    /\ noise_gen.class = "GenerateCDNQueries"
    /\ Get(noise_call).before.denoising_groups = 4
    /\ Get(noise_call).result.denoising_groups = 2
    /\ Get(noise_call).gt_nums_per_image = <<2, 1>>
    /\ Get(noise_call).result.times = 4

====
